---- MODULE Spec2Model ----
(***************************************************************************)
(* State-machine model of the event detection and adaptive response core   *)
(* of the AI Security Agent:                                                *)
(*   - handle_event (app/api/endpoints.py): the staged detector pipeline,  *)
(*     the result processing and the adaptive rate limit;                  *)
(*   - the circuit breaker around detect_llm_anomaly (state in             *)
(*     app/state.py, transition logic in app/services/detection.py);       *)
(*   - ConnectionManager (app/api/websocket.py): connect, disconnect and   *)
(*     broadcast over the live set of WebSocket observers;                 *)
(*   - broadcast_metrics_periodically (app/api/websocket.py): the prune of *)
(*     the sliding-window timestamp deques and the metrics snapshot;       *)
(*   - add_monitor_endpoint and remove_monitor_endpoint over the monitor   *)
(*     registry (started and stopped by app/services/monitoring.py);       *)
(*   - get_analytics_endpoint: the count of the active rate limits.        *)
(* Time is an integer clock; one unit is an abstract number of seconds.    *)
(***************************************************************************)
EXTENDS Integers, Sequences, FiniteSets, TLC

VARIABLES
    now,                \* time.time(), as an integer clock
    pipeline,           \* DETECTOR_PIPELINE: the ordered list of stages
    hpc,                \* handle_event: position of each in-flight request
    ip,                 \* handle_event: local ip
    idx,                \* handle_event: position of the for loop in pipeline
    all_detections,     \* handle_event: local all_detections
    critical_found,     \* handle_event: local critical_found
    invoked,            \* history: the stages called for the event, in order
    llm_call,           \* what became of the detect_llm_anomaly call
    risk_score,         \* handle_event: local risk_score (NoRisk before)
    timestamp,          \* handle_event: local timestamp
    initial_report,     \* handle_event: local initial_report
    logged,             \* history: what became of the call of line 113
    background_tasks,   \* handle_event: the tasks added to background_tasks
    published,          \* history: the messages its tasks gave to broadcast
    response,           \* HTTP status answered (0 while in flight)
    rate_limited_ips,   \* app_state.rate_limited_ips: ip -> expiry
    llm_circuit_state,  \* app_state.llm_circuit_state
    peer_pc,            \* a second request inside detect_llm_anomaly
    peer_probe,         \* whether that call was let through an OPEN breaker
    active_connections, \* ConnectionManager.active_connections
    ws_state,           \* websocket_endpoint: position of each websocket
    bpc,                \* broadcast: position of each in-flight call
    bmsg_ok,            \* broadcast: whether json.dumps(message) succeeds
    it_used,            \* broadcast: size of the set when iteration began
    it_seen,            \* broadcast: connections the set iterator yielded
    it_dirty,           \* broadcast: the set was modified under the iterator
    connection,         \* broadcast: loop variable (send_text in flight)
    disconnected,       \* broadcast: local set disconnected
    bstart,             \* history: the observer set when broadcast started
    bdirty,             \* history: connect/disconnect ran during the call
    repeated,           \* history: what the last connect of a registered
                        \* observer did, and the last disconnect of an
                        \* unregistered one
    raised,             \* history: the stages that raised for the event
    request_timestamps,      \* app_state.request_timestamps, deque
    error_event_timestamps,  \* app_state.error_event_timestamps, deque
    mpc,                \* broadcast_metrics_periodically: its position
    metrics,            \* broadcast_metrics_periodically: local metrics
    must_cancel,        \* metrics task: a CancelledError is to be thrown in
    lpc,                \* lifespan: its position
    active_rate_limits, \* get_analytics_endpoint: rate_limited_ip_count
    log_lock,           \* app_state.log_lock: the thread that holds it
    persist,            \* log_secure_attack_event: position and local
                        \* attack_log of each call made from a thread
    persisted,          \* history: entries written since the file was whole
    simulation,         \* run_simulation_background_task: position, locals
                        \* and history of its status broadcasts
    attack_log,         \* the file settings.LOG_JSON_FILE
    sink,               \* whether reading and writing that file succeed
    threat_events,      \* history: the events with a detection, by time
    attack_history,     \* app_state.attack_history: its length
    log_answer,         \* get_attack_log_endpoint: what it answered last
    logs_answer,        \* get_attack_logs: what it answered last
    monitored_websites,      \* app_state.monitored_websites: url -> interval
    active_monitoring_tasks, \* app_state.active_monitoring_tasks: url -> task
    website_health_history,  \* app_state.website_health_history: url -> size
    tasks,              \* the monitor tasks ever created: target and state
    apc,                \* add_monitor_endpoint: position of each call
    add_url,            \* add_monitor_endpoint: config.url after line 210
    add_response,       \* add_monitor_endpoint: what the call answers
    check_interval,     \* history: config.check_interval as line 211 reads it
    rpc,                \* remove_monitor_endpoint: position of each call
    decoded_url,        \* remove_monitor_endpoint: local decoded_url
    awaited,            \* stop_website_monitoring: the task it awaits
    remove_response     \* remove_monitor_endpoint: status answered

reportVars == <<timestamp, initial_report, logged, background_tasks,
                published>>
pipeVars == <<now, pipeline, hpc, ip, idx, all_detections, critical_found,
              invoked, llm_call, risk_score, reportVars, response,
              rate_limited_ips, llm_circuit_state, peer_pc, peer_probe,
              raised>>
wsVars == <<active_connections, ws_state, bpc, bmsg_ok, it_used, it_seen,
            it_dirty, connection, disconnected, bstart, bdirty, repeated>>
winVars == <<request_timestamps, error_event_timestamps>>
loopVars == <<mpc, metrics, must_cancel, lpc>>
registry == <<monitored_websites, active_monitoring_tasks,
              website_health_history, tasks>>
monVars == <<registry, apc, add_url, add_response, check_interval, rpc,
             decoded_url, awaited, remove_response>>
logVars == <<attack_log, sink, threat_events, attack_history, log_answer,
             logs_answer>>
bgVars == <<log_lock, persist, persisted, simulation>>
auxVars == <<winVars, loopVars, active_rate_limits, bgVars, logVars, monVars>>
vars == <<pipeVars, wsVars, auxVars>>

----------------------------------------------------------------------------
(* Bounds of the model *)

MaxTime == 4            \* the clock stops here
NumFast == 2            \* detector stages other than detect_llm_anomaly
MaxFailures == 4        \* failure_count is not driven beyond this
MaxTasks == 3           \* monitor tasks created in one run
LogCap == 2             \* a log of so many entries stands for a longer one

(* Program constants *)

HIGH_RISK_SCORE == 80   \* endpoints.py:123, the 0.8 threshold in percent
RATE_LIMIT_DURATION == 2        \* settings.RATE_LIMIT_DURATION
LLM_FAILURE_THRESHOLD == 3      \* failures that open the breaker
LLM_FAILURE_WINDOW == 2         \* trailing window of the failure count
LLM_COOLDOWN == 2               \* cool-down of the OPEN breaker
TIME_WINDOW_SECONDS == 2        \* settings.TIME_WINDOW_SECONDS
MaxTimestamps == 2              \* state.py:42,44, maxlen=500 of the deques
MaxHistory == 1                 \* state.py:49, maxlen=1000 of attack_history
MaxHealth == 2                  \* state.py:56, maxlen=100 of a health history
MIN_CHECK_INTERVAL == 30        \* endpoints.py:211

Handlers == {"h1"}
IPs == {"10.0.0.5", "10.0.0.6"}
Severities == {"LOW", "MEDIUM", "HIGH", "CRITICAL"}
LLM == 0      \* the stage whose __name__ is detect_llm_anomaly
FastStages == 1..NumFast
NoRisk == [score |-> -1, severity |-> "NONE"]
NoTime == -1
NoIP == "no request"

(* settings.SEVERITY_WEIGHTS: LOW < MEDIUM < HIGH < CRITICAL *)
SEVERITY_WEIGHTS(s) ==
    CASE s = "LOW" -> 1 [] s = "MEDIUM" -> 2 [] s = "HIGH" -> 3
      [] s = "CRITICAL" -> 4 [] OTHER -> 0

(* The pipelines: the fast stages in order, detect_llm_anomaly anywhere *)
InsertAt(s, p, e) == SubSeq(s, 1, p - 1) \o <<e>> \o SubSeq(s, p, Len(s))
FastList == [i \in FastStages |-> i]
Pipelines == {InsertAt(FastList, p, LLM) : p \in 1..(NumFast + 1)}

----------------------------------------------------------------------------
(* Detector results.  A stage returns None, raises, or returns a detection *)
(* dict, of which the model keeps the producing stage and the severity.    *)

Detection(st, sev) == [stage |-> st, severity |-> sev]
DetectorOutcomes == {"none", "raise"} \cup Severities

(* the comparison of line 78 written with the wrong case *)
IsCriticalResult_wrongCase(sev) == sev = "critical"

(* endpoints.py:78, result.get("severity") == "CRITICAL" *)
IsCriticalResult(sev) == sev = "CRITICAL"

(* endpoints.py:76, if result: a detection dict, not None *)
Detects(o) == o \in Severities

(* a loop that does not pass over the expensive stage *)
IsLLMStage_never(st) == FALSE

(* endpoints.py:72, detector.__name__ == 'detect_llm_anomaly' *)
IsLLMStage(st) == st = LLM

(* a loop that an error of a detector ends *)
NextIndex_stopsOnError(i, o, n) == IF o = "raise" THEN n + 1 ELSE i + 1

(* endpoints.py:70 and 83-85: the exception is caught and logged inside   *)
(* the loop body, and the loop goes on to the next detector of the list   *)
NextIndex(i, o, n) == i + 1

(* an error of the expensive stage that loses the detections collected *)
OnLLMError_dropsAll(dets) == <<>>

(* endpoints.py:95-97: the exception is caught and logged; all_detections *)
(* is what it was before the call                                         *)
OnLLMError(dets) == dets

(* line 88 without its guard *)
RunsLLM_unguarded(critical) == TRUE

(* endpoints.py:88, if not critical_found *)
RunsLLM(critical) == ~critical

(* endpoints.py:107, max(all_detections, key=weight): the first maximum *)
RECURSIVE MaxIndex(_, _, _)
MaxIndex(dets, i, best) ==
    IF i > Len(dets) THEN best
    ELSE IF SEVERITY_WEIGHTS(dets[i].severity) >
            SEVERITY_WEIGHTS(dets[best].severity)
         THEN MaxIndex(dets, i + 1, i)
         ELSE MaxIndex(dets, i + 1, best)

(* a report built on the detection collected last *)
primary_attack_latest(dets) == dets[Len(dets)]

primary_attack(dets) == dets[MaxIndex(dets, 2, 1)]

(* calculate_risk_score: a score in percent and a severity label that      *)
(* mirrors the primary attack unless the score upgrades it to CRITICAL.    *)
ScoreValues == {79, 80}
calculate_risk_score(dets) ==
    {[score |-> sc, severity |-> sv] :
        sc \in ScoreValues,
        sv \in {"CRITICAL"} \cup
                 (IF dets = <<>> THEN {} ELSE {primary_attack(dets).severity})}

(* endpoints.py:110-111, initial_report: the fields of the primary attack, *)
(* over which come the timestamp, the score and severity of the risk      *)
(* score and the ip of the event                                          *)
Report(attack, t, rs, i) ==
    [attack |-> attack, timestamp |-> t, risk_score |-> rs.score,
     severity |-> rs.severity, ip |-> i, update |-> FALSE]
NoReport == Report(Detection(LLM, "NONE"), NoTime, NoRisk, NoIP)

(* line 123 without the score test *)
IsHighRisk_severityOnly(rs) == rs.severity = "CRITICAL"

(* endpoints.py:123 *)
IsHighRisk(rs) == rs.severity = "CRITICAL" \/ rs.score >= HIGH_RISK_SCORE

(* line 124 without the duration *)
rate_limit_until_noDuration(t) == t

(* endpoints.py:124 *)
rate_limit_until(t) == t + RATE_LIMIT_DURATION

(* a write that keeps an expiry later than its own *)
RecordHighRisk_keepsLater(tbl, i, t) ==
    [j \in DOMAIN tbl \cup {i} |->
        IF j # i THEN tbl[j]
        ELSE IF i \in DOMAIN tbl /\ tbl[i] > rate_limit_until(t) THEN tbl[i]
        ELSE rate_limit_until(t)]

(* endpoints.py:125, app_state.rate_limited_ips[ip] = rate_limit_until *)
RecordHighRisk(tbl, i, t) ==
    [j \in DOMAIN tbl \cup {i} |-> IF j = i THEN rate_limit_until(t) ELSE tbl[j]]

(* an entry that counts whether it has expired or not *)
shouldBlock_anyEntry(tbl, i, t) == i \in DOMAIN tbl

(* endpoints.py:292, the lazy expiry check of a rate-limit entry *)
shouldBlock(tbl, i, t) == i \in DOMAIN tbl /\ tbl[i] > t

----------------------------------------------------------------------------
(* Sliding-window timestamp sequences, state.py:41-44                      *)

(* an append at the wrong end of the deque *)
DequeAppend_atFront(dq, x, maxlen) ==
    IF Len(dq) >= maxlen THEN <<x>> \o SubSeq(dq, 1, Len(dq) - 1)
    ELSE <<x>> \o dq

(* deque(maxlen=...).append: a full deque drops its oldest entry *)
DequeAppend(dq, x, maxlen) ==
    IF Len(dq) >= maxlen THEN Append(Tail(dq), x) ELSE Append(dq, x)

(* a prune that looks at the front entry only *)
PruneFront_once(dq, cutoff) ==
    IF dq # <<>> /\ Head(dq) < cutoff THEN Tail(dq) ELSE dq

(* websocket.py:94-98: while dq and dq[0] < cutoff: dq.popleft() *)
RECURSIVE PruneFront(_, _)
PruneFront(dq, cutoff) ==
    IF dq # <<>> /\ Head(dq) < cutoff THEN PruneFront(Tail(dq), cutoff)
    ELSE dq

NoMetrics == [requests_per_minute |-> -1, error_events_per_minute |-> -1,
              active_ws_clients |-> -1, llm_status |-> "NONE"]
NoAnswer == -1

----------------------------------------------------------------------------
(* Circuit breaker over LLMCircuitState                                    *)

CircuitInit ==
    [is_open |-> FALSE, last_failure_time |-> 0, failure_count |-> 0,
     last_error |-> ""]

(* a breaker that never short-circuits *)
BreakerAllows_always(cs, t) == TRUE

(* a call is let through when CLOSED, or when OPEN and cooled down *)
BreakerAllows(cs, t) ==
    ~cs.is_open \/ t - cs.last_failure_time >= LLM_COOLDOWN

(* a success that closes the breaker and keeps the count *)
BreakerOnSuccess_keepsCount(cs) == [cs EXCEPT !.is_open = FALSE]

(* a successful call closes the breaker and clears the count *)
BreakerOnSuccess(cs) ==
    [cs EXCEPT !.is_open = FALSE, !.failure_count = 0]

(* a failed call counts within the trailing window, restarts the timer   *)
(* and opens the breaker at the threshold                                 *)
BreakerOnFailure(cs, t) ==
    LET cnt == IF cs.failure_count > 0
                   /\ t - cs.last_failure_time > LLM_FAILURE_WINDOW
               THEN 1 ELSE cs.failure_count + 1
    IN [is_open |-> cs.is_open \/ cnt >= LLM_FAILURE_THRESHOLD,
        last_failure_time |-> t,
        failure_count |-> cnt,
        last_error |-> "error"]

(* a status that looks at the failure count first *)
llm_status_countFirst(cs) ==
    IF cs.failure_count > 0 THEN "DEGRADED"
    ELSE IF cs.is_open THEN "OPEN" ELSE "ACTIVE"

(* websocket.py:105-110, the status shown in the metrics snapshot *)
llm_status(cs) ==
    IF cs.is_open THEN "OPEN"
    ELSE IF cs.failure_count > 0 THEN "DEGRADED" ELSE "ACTIVE"

----------------------------------------------------------------------------
(* The persisted attack log, utils.py:69-127, and its readers              *)

(* the file: missing, of zero bytes, text that json.loads refuses with a   *)
(* JSONDecodeError, bytes that cannot be read as text or JSON nested       *)
(* deeper than the parser goes (UnicodeDecodeError, RecursionError), JSON  *)
(* that is not a list, or a JSON list of so many entries                   *)
File(kind, n) == [kind |-> kind, entries |-> n]
MissingFile == File("missing", 0)
EmptyFile == File("empty", 0)
InvalidJSON == File("invalid", 0)
Undecodable == File("undecodable", 0)
NotAList == File("not_list", 0)
Damaged == {MissingFile, EmptyFile, InvalidJSON, Undecodable, NotAList}
Sinks == {"ok", "read_fails", "write_fails"}

(* utils.py:99-116: the list read from the file, or an empty one when the  *)
(* file is missing, empty, refused with a JSONDecodeError or not a list,   *)
(* with the new entry; nothing is appended to a file whose read raises     *)
(* another exception                                                       *)
AppendEntry(log) ==
    IF log.kind = "list"
    THEN File("list", IF log.entries < LogCap THEN log.entries + 1 ELSE LogCap)
    ELSE IF log.kind = "undecodable" THEN log
    ELSE File("list", 1)

(* utils.py:99-103: open, f.read() or json.loads raises an exception that  *)
(* line 108 does not catch; a missing file is not read                     *)
ReadRaises(log, s) ==
    \/ s = "read_fails" /\ log.kind # "missing"
    \/ log.kind = "undecodable"

(* the exception that leaves the try block of line 97, "none" when the     *)
(* block is left by its end; UnicodeDecodeError stands for RecursionError  *)
(* too                                                                     *)
Raised(log, s) ==
    IF s = "read_fails" /\ log.kind # "missing" THEN "IOError"
    ELSE IF log.kind = "undecodable" THEN "UnicodeDecodeError"
    ELSE IF s = "write_fails" THEN "IOError"
    ELSE "none"

(* the call writes no entry: its try block is left by an exception *)
SinkFails(log, s) == Raised(log, s) # "none"

(* utils.py:96-127: what the file holds after log_secure_attack_event; a   *)
(* failed read leaves it alone, a failed write may have truncated it or    *)
(* written a part of the list                                              *)
Persist(log, s) ==
    IF ~SinkFails(log, s) THEN {AppendEntry(log)}
    ELSE IF ReadRaises(log, s) THEN {log}
    ELSE {log, EmptyFile, InvalidJSON}

(* a logger whose errors reach its caller *)
Caught_never(e) == FALSE

(* utils.py:97 and 123-127: the read and the write stand inside the try,   *)
(* whose except clauses take IOError, JSONDecodeError and every other      *)
(* Exception, and only log                                                 *)
Caught(e) == e \in {"IOError", "JSONDecodeError", "UnicodeDecodeError"}

(* a history that never evicts *)
LengthAfterAppend_noEviction(n, maxlen) == n + 1

(* deque(maxlen).append, for the length of the deque *)
LengthAfterAppend(n, maxlen) == IF n >= maxlen THEN maxlen ELSE n + 1

Answer(status, kind, n) == [status |-> status, kind |-> kind, entries |-> n]
NoLogAnswer == Answer(0, "none", 0)

(* endpoints.py:165-184 *)
get_attack_log_endpoint(log, s) ==
    IF log.kind = "missing" THEN Answer(200, "list", 0)
    ELSE IF s = "read_fails" THEN Answer(500, "none", 0)
    ELSE IF log.kind = "empty" THEN Answer(200, "list", 0)
    ELSE IF log.kind = "list" THEN Answer(200, "list", log.entries)
    ELSE Answer(500, "none", 0)

(* threat_service.py:11-23 *)
get_attack_logs(log, s) ==
    IF log.kind = "missing" THEN Answer(404, "none", 0)
    ELSE IF s = "read_fails" THEN Answer(500, "none", 0)
    ELSE IF log.kind = "list" THEN Answer(200, "list", log.entries)
    ELSE IF log.kind = "not_list" THEN Answer(200, "not_list", 0)
    ELSE Answer(500, "none", 0)

(* endpoints.py:115-119, in the order of the add_task calls *)
BackgroundTasks == <<"notify_alerts", "broadcast",
                     "update_event_with_location">>

----------------------------------------------------------------------------
(* handle_event, endpoints.py:54-133                                       *)

handlerLocals == <<ip, idx, all_detections, critical_found, invoked,
                   llm_call, risk_score, reportVars, response, raised>>

(* lines 59-66: a request arrives; the locals are initialised *)
Receive(h, sources) ==
    /\ hpc[h] = "idle"
    /\ \E i \in sources : ip' = [ip EXCEPT ![h] = i]
    /\ hpc' = [hpc EXCEPT ![h] = "loop"]
    /\ idx' = [idx EXCEPT ![h] = 1]
    /\ all_detections' = [all_detections EXCEPT ![h] = <<>>]
    /\ critical_found' = [critical_found EXCEPT ![h] = FALSE]
    /\ invoked' = [invoked EXCEPT ![h] = <<>>]
    /\ llm_call' = [llm_call EXCEPT ![h] = "none"]
    /\ risk_score' = [risk_score EXCEPT ![h] = NoRisk]
    /\ timestamp' = [timestamp EXCEPT ![h] = now]
    /\ initial_report' = [initial_report EXCEPT ![h] = NoReport]
    /\ logged' = [logged EXCEPT ![h] = "none"]
    /\ background_tasks' = [background_tasks EXCEPT ![h] = <<>>]
    /\ published' = [published EXCEPT ![h] = <<>>]
    /\ response' = [response EXCEPT ![h] = 0]
    /\ raised' = [raised EXCEPT ![h] = {}]
    /\ UNCHANGED <<now, pipeline, rate_limited_ips, llm_circuit_state,
                   peer_pc, peer_probe, wsVars, auxVars>>

(* lines 72-73: the loop passes over detect_llm_anomaly *)
SkipLLMInLoop(h) ==
    /\ hpc[h] = "loop"
    /\ idx[h] <= Len(pipeline)
    /\ IsLLMStage(pipeline[idx[h]])
    /\ idx' = [idx EXCEPT ![h] = @ + 1]
    /\ UNCHANGED <<now, pipeline, hpc, ip, all_detections, critical_found,
                   invoked, llm_call, risk_score, reportVars, response, raised,
                   rate_limited_ips, llm_circuit_state, peer_pc, peer_probe,
                   wsVars, auxVars>>

(* lines 74-85: one detector is awaited; it returns None, raises (caught   *)
(* and logged) or returns a detection; a CRITICAL one breaks the loop      *)
RunDetector(h) ==
    /\ hpc[h] = "loop"
    /\ idx[h] <= Len(pipeline)
    /\ ~IsLLMStage(pipeline[idx[h]])
    /\ invoked' = [invoked EXCEPT ![h] = Append(@, pipeline[idx[h]])]
    /\ \E o \in DetectorOutcomes :
         /\ raised' = [raised EXCEPT ![h] =
                IF o = "raise" THEN @ \cup {pipeline[idx[h]]} ELSE @]
         /\ IF Detects(o)
            THEN /\ all_detections' = [all_detections EXCEPT
                       ![h] = Append(@, Detection(pipeline[idx[h]], o))]
                 /\ IF IsCriticalResult(o)
                    THEN /\ critical_found' =
                               [critical_found EXCEPT ![h] = TRUE]
                         /\ hpc' = [hpc EXCEPT ![h] = "after_loop"]
                         /\ idx' = idx
                    ELSE /\ idx' = [idx EXCEPT ![h] =
                                    NextIndex(@, o, Len(pipeline))]
                         /\ UNCHANGED <<critical_found, hpc>>
            ELSE /\ idx' = [idx EXCEPT ![h] =
                            NextIndex(@, o, Len(pipeline))]
                 /\ UNCHANGED <<all_detections, critical_found, hpc>>
    /\ UNCHANGED <<now, pipeline, ip, llm_call, risk_score, reportVars,
                   response,
                   rate_limited_ips, llm_circuit_state, peer_pc, peer_probe,
                   wsVars, auxVars>>

(* the for loop is exhausted *)
LoopEnd(h) ==
    /\ hpc[h] = "loop"
    /\ idx[h] > Len(pipeline)
    /\ hpc' = [hpc EXCEPT ![h] = "after_loop"]
    /\ UNCHANGED <<now, pipeline, handlerLocals, rate_limited_ips,
                   llm_circuit_state, peer_pc, peer_probe, wsVars, auxVars>>

(* lines 88-92: detect_llm_anomaly is called unless a critical threat was  *)
(* found; the breaker lets the request through or answers None at once     *)
CallLLM(h) ==
    /\ hpc[h] = "after_loop"
    /\ IF RunsLLM(critical_found[h])
       THEN /\ invoked' = [invoked EXCEPT ![h] = Append(@, LLM)]
            /\ IF BreakerAllows(llm_circuit_state, now)
               THEN /\ llm_call' = [llm_call EXCEPT ![h] =
                          IF llm_circuit_state.is_open
                          THEN "probing" ELSE "calling"]
                    /\ hpc' = [hpc EXCEPT ![h] = "llm"]
               ELSE /\ llm_call' = [llm_call EXCEPT ![h] = "skipped"]
                    /\ hpc' = [hpc EXCEPT ![h] = "process"]
       ELSE /\ hpc' = [hpc EXCEPT ![h] = "process"]
            /\ UNCHANGED <<invoked, llm_call>>
    /\ UNCHANGED <<now, pipeline, ip, idx, all_detections, critical_found,
                   risk_score, reportVars, response, raised, rate_limited_ips,
                   llm_circuit_state, peer_pc, peer_probe, wsVars, auxVars>>

(* lines 92-97: the request to the model succeeds, with or without a       *)
(* detection, or fails; the breaker records the outcome                    *)
LLMSucceeds(h) ==
    /\ hpc[h] = "llm"
    /\ llm_circuit_state' = BreakerOnSuccess(llm_circuit_state)
    /\ llm_call' = [llm_call EXCEPT ![h] =
           IF @ = "probing" THEN "probe_succeeded" ELSE "succeeded"]
    /\ \E o \in {"none"} \cup Severities :
         all_detections' = [all_detections EXCEPT ![h] =
             IF o = "none" THEN @ ELSE Append(@, Detection(LLM, o))]
    /\ hpc' = [hpc EXCEPT ![h] = "process"]
    /\ UNCHANGED <<now, pipeline, ip, idx, critical_found, invoked,
                   risk_score, reportVars, response, raised,
                   rate_limited_ips, peer_pc,
                   peer_probe, wsVars, auxVars>>

LLMFails(h) ==
    /\ hpc[h] = "llm"
    /\ llm_circuit_state.failure_count < MaxFailures
    /\ llm_circuit_state' = BreakerOnFailure(llm_circuit_state, now)
    /\ llm_call' = [llm_call EXCEPT ![h] =
           IF @ = "probing" THEN "probe_failed" ELSE "failed"]
    /\ all_detections' = [all_detections EXCEPT ![h] = OnLLMError(@)]
    /\ hpc' = [hpc EXCEPT ![h] = "process"]
    /\ UNCHANGED <<now, pipeline, ip, idx, critical_found, invoked,
                   risk_score, reportVars, response, raised,
                   rate_limited_ips, peer_pc,
                   peer_probe, wsVars, auxVars>>

(* the record of the events with a detection: how many at each time of the *)
(* clock, counted up to the length a deque can have; kept in the           *)
(* specifications that compare a snapshot with it                          *)
Untracked == <<>>
NoneYet == [t \in 0..MaxTime |-> 0]
Counted(events, t) ==
    IF events = Untracked THEN events
    ELSE [events EXCEPT ![t] = IF @ < MaxTimestamps THEN @ + 1 ELSE @]

(* a handler that scores whatever was collected *)
NoDetections_unchecked(dets) == FALSE

(* endpoints.py:100, if not all_detections *)
NoDetections(dets) == dets = <<>>

(* lines 100-103: nothing detected *)
NoThreat(h) ==
    /\ hpc[h] = "process"
    /\ NoDetections(all_detections[h])
    /\ response' = [response EXCEPT ![h] = 200]
    /\ hpc' = [hpc EXCEPT ![h] = "done"]
    /\ UNCHANGED <<now, pipeline, ip, idx, all_detections, critical_found,
                   invoked, llm_call, risk_score, reportVars, raised,
                   rate_limited_ips,
                   llm_circuit_state, peer_pc, peer_probe, wsVars, auxVars>>

(* lines 105-133: the threat is scored, reported, logged, appended to the  *)
(* history and handed to the background tasks; a high-risk score           *)
(* rate-limits the source IP and is answered 403.  The score is computed   *)
(* at line 106, before max() at line 107, which raises ValueError on an    *)
(* empty list: the request is then answered 500, as it is when an          *)
(* exception gets out of line 113                                          *)
ThreatDetected(h) ==
    /\ hpc[h] = "process"
    /\ ~NoDetections(all_detections[h])
    /\ \E rs \in calculate_risk_score(all_detections[h]) :
         /\ risk_score' = [risk_score EXCEPT ![h] = rs]
         /\ IF all_detections[h] = <<>>
            THEN /\ response' = [response EXCEPT ![h] = 500]
                 /\ UNCHANGED <<rate_limited_ips, initial_report, logged,
                                background_tasks, attack_log, attack_history>>
            ELSE /\ initial_report' = [initial_report EXCEPT ![h] =
                        Report(primary_attack(all_detections[h]),
                               timestamp[h], rs, ip[h])]
                 /\ attack_log' \in Persist(attack_log, sink)
                 /\ logged' = [logged EXCEPT ![h] =
                        IF SinkFails(attack_log, sink)
                        THEN "failed" ELSE "written"]
                 /\ IF SinkFails(attack_log, sink)
                       /\ ~Caught(Raised(attack_log, sink))
                    THEN /\ response' = [response EXCEPT ![h] = 500]
                         /\ UNCHANGED <<rate_limited_ips, attack_history,
                                        background_tasks>>
                    ELSE /\ attack_history' =
                                LengthAfterAppend(attack_history, MaxHistory)
                         /\ background_tasks' =
                                [background_tasks EXCEPT
                                    ![h] = BackgroundTasks]
                         /\ IF IsHighRisk(rs)
                            THEN /\ rate_limited_ips' =
                                        RecordHighRisk(rate_limited_ips,
                                                       ip[h], now)
                                 /\ response' =
                                        [response EXCEPT ![h] = 403]
                            ELSE /\ rate_limited_ips' = rate_limited_ips
                                 /\ response' =
                                        [response EXCEPT ![h] = 200]
    /\ error_event_timestamps' =
           DequeAppend(error_event_timestamps, now, MaxTimestamps)
    /\ threat_events' =
           IF all_detections[h] = <<>> THEN threat_events
           ELSE Counted(threat_events, now)
    /\ hpc' = [hpc EXCEPT ![h] = "done"]
    /\ UNCHANGED <<now, pipeline, ip, idx, all_detections, critical_found,
                   invoked, llm_call, timestamp, published, raised,
                   llm_circuit_state, peer_pc, peer_probe, wsVars,
                   request_timestamps, loopVars, active_rate_limits, bgVars, sink,
                   log_answer, logs_answer, monVars>>

(* the response has been sent; the request and its locals are gone *)
Respond(h) ==
    /\ hpc[h] = "done"
    /\ hpc' = [hpc EXCEPT ![h] = "idle"]
    /\ ip' = [ip EXCEPT ![h] = NoIP]
    /\ idx' = [idx EXCEPT ![h] = 1]
    /\ all_detections' = [all_detections EXCEPT ![h] = <<>>]
    /\ critical_found' = [critical_found EXCEPT ![h] = FALSE]
    /\ invoked' = [invoked EXCEPT ![h] = <<>>]
    /\ llm_call' = [llm_call EXCEPT ![h] = "none"]
    /\ risk_score' = [risk_score EXCEPT ![h] = NoRisk]
    /\ timestamp' = [timestamp EXCEPT ![h] = NoTime]
    /\ initial_report' = [initial_report EXCEPT ![h] = NoReport]
    /\ logged' = [logged EXCEPT ![h] = "none"]
    /\ background_tasks' = [background_tasks EXCEPT ![h] = <<>>]
    /\ published' = [published EXCEPT ![h] = <<>>]
    /\ response' = [response EXCEPT ![h] = 0]
    /\ raised' = [raised EXCEPT ![h] = {}]
    /\ UNCHANGED <<now, pipeline, rate_limited_ips, llm_circuit_state,
                   peer_pc, peer_probe, wsVars, auxVars>>

(* A concurrent request while the first one is in flight: its use of the   *)
(* shared breaker and what it does to the shared state are kept, its       *)
(* locals and its answer are not                                           *)

(* lines 65-85 of that request: what its loop over the fast stages has     *)
(* collected when it reaches line 88 with critical_found False: for each   *)
(* fast stage, in the order of the pipeline, nothing (it returned None or  *)
(* raised) or a detection that is not CRITICAL                             *)
RECURSIVE Collected(_, _)
Collected(found, k) ==
    IF k > Len(pipeline) THEN <<>>
    ELSE IF k \in DOMAIN found /\ found[k] # "none"
         THEN <<Detection(pipeline[k], found[k])>> \o Collected(found, k + 1)
         ELSE Collected(found, k + 1)
PeerCollected ==
    LET fast == {k \in 1..Len(pipeline) : ~IsLLMStage(pipeline[k])}
    IN {Collected(found, 1) :
           found \in [fast -> {"none"} \cup (Severities \ {"CRITICAL"})]}

(* lines 100-133 of that request, from source i with the detections dets:  *)
(* no await stands between line 92 and the return, so they run in the step *)
(* that ends its call of the expensive stage                               *)
PeerProcesses(i, dets) ==
    IF NoDetections(dets)
    THEN UNCHANGED <<error_event_timestamps, attack_log, attack_history,
                     threat_events, rate_limited_ips>>
    ELSE /\ error_event_timestamps' =
                DequeAppend(error_event_timestamps, now, MaxTimestamps)
         /\ attack_log' \in Persist(attack_log, sink)
         /\ attack_history' = LengthAfterAppend(attack_history, MaxHistory)
         /\ threat_events' = Counted(threat_events, now)
         /\ \E rs \in calculate_risk_score(dets) :
              rate_limited_ips' =
                  IF IsHighRisk(rs)
                  THEN RecordHighRisk(rate_limited_ips, i, now)
                  ELSE rate_limited_ips

(* line 92: that request reaches detect_llm_anomaly *)
PeerCallLLM ==
    /\ peer_pc = "idle"
    /\ BreakerAllows(llm_circuit_state, now)
    /\ peer_pc' = "llm"
    /\ peer_probe' = llm_circuit_state.is_open
    /\ UNCHANGED <<now, pipeline, hpc, handlerLocals, rate_limited_ips,
                   llm_circuit_state, wsVars, auxVars>>

(* lines 92-133: its call returns, None or a detection, and the request    *)
(* goes through to its return                                              *)
PeerLLMSucceeds(i) ==
    /\ peer_pc = "llm"
    /\ llm_circuit_state' = BreakerOnSuccess(llm_circuit_state)
    /\ peer_pc' = "idle"
    /\ \E collected \in PeerCollected, o \in {"none"} \cup Severities :
         PeerProcesses(i, IF o = "none" THEN collected
                          ELSE Append(collected, Detection(LLM, o)))
    /\ UNCHANGED <<now, pipeline, hpc, handlerLocals, peer_probe, wsVars,
                   request_timestamps, loopVars, active_rate_limits, bgVars,
                   sink, log_answer, logs_answer, monVars>>

(* lines 92-133: its call raises (caught at line 95), and the request goes *)
(* through to its return with what the fast stages collected               *)
PeerLLMFails(i) ==
    /\ peer_pc = "llm"
    /\ llm_circuit_state.failure_count < MaxFailures
    /\ llm_circuit_state' = BreakerOnFailure(llm_circuit_state, now)
    /\ peer_pc' = "idle"
    /\ \E collected \in PeerCollected :
         PeerProcesses(i, OnLLMError(collected))
    /\ UNCHANGED <<now, pipeline, hpc, handlerLocals, peer_probe, wsVars,
                   request_timestamps, loopVars, active_rate_limits, bgVars,
                   sink, log_answer, logs_answer, monVars>>

(* A concurrent request from source i with a detection gets through lines  *)
(* 105-133, which hold no await: only what it does to the shared state is  *)
(* kept                                                                    *)
PeerThreatDetected(i) ==
    /\ \E sev \in Severities : PeerProcesses(i, <<Detection(LLM, sev)>>)
    /\ UNCHANGED <<now, pipeline, hpc, handlerLocals, llm_circuit_state,
                   peer_pc, peer_probe, wsVars, request_timestamps, loopVars,
                   active_rate_limits, bgVars, sink, log_answer, logs_answer,
                   monVars>>

(* get_analytics_endpoint, endpoints.py:261-293: the rate limits that are *)
(* active now are counted; the table is read, nothing is written          *)
GetAnalytics ==
    /\ active_rate_limits' =
           Cardinality({i \in DOMAIN rate_limited_ips :
                           shouldBlock(rate_limited_ips, i, now)})
    /\ UNCHANGED <<pipeVars, wsVars, winVars, loopVars, bgVars, logVars,
                   monVars>>

(* get_attack_log_endpoint, endpoints.py:165-184 *)
GetAttackLog ==
    /\ log_answer' = get_attack_log_endpoint(attack_log, sink)
    /\ UNCHANGED <<pipeVars, wsVars, winVars, loopVars, active_rate_limits,
                   bgVars,
                   attack_log, sink, threat_events, attack_history,
                   logs_answer, monVars>>

(* get_attack_logs, threat_service.py:11-23 *)
GetAttackLogs ==
    /\ logs_answer' = get_attack_logs(attack_log, sink)
    /\ UNCHANGED <<pipeVars, wsVars, winVars, loopVars, active_rate_limits,
                   bgVars,
                   attack_log, sink, threat_events, attack_history,
                   log_answer, monVars>>

(* the file system starts or stops failing the reads or the writes *)
SinkChanges ==
    /\ \E s \in Sinks \ {sink} : sink' = s
    /\ UNCHANGED <<pipeVars, wsVars, winVars, loopVars, active_rate_limits,
                   bgVars,
                   attack_log, threat_events, attack_history, log_answer,
                   logs_answer, monVars>>

(* the file is removed, truncated or overwritten from outside *)
LogDamaged ==
    /\ \E f \in Damaged \ {attack_log} : attack_log' = f
    /\ UNCHANGED <<pipeVars, wsVars, winVars, loopVars, active_rate_limits,
                   bgVars,
                   sink, threat_events, attack_history, log_answer,
                   logs_answer, monVars>>

(* time passes *)
Tick ==
    /\ now < MaxTime
    /\ now' = now + 1
    /\ UNCHANGED <<pipeline, hpc, handlerLocals, rate_limited_ips,
                   llm_circuit_state, peer_pc, peer_probe, wsVars, auxVars>>

----------------------------------------------------------------------------
(* ConnectionManager and websocket_endpoint, websocket.py:17-79            *)

Observers == {"ws1", "ws2"}
Broadcasts == {"b1", "b2"}
NoConn == "none"        \* no connection, no broadcast

InFlight(b) == bpc[b] = "sending"

(* the iterators of the broadcasts in flight see the set modified *)
TouchOthers(self, changed, dirty) ==
    [b \in Broadcasts |->
        dirty[b] \/ (b # self /\ InFlight(b) /\ changed)]
Touch(changed, dirty) == TouchOthers(NoConn, changed, dirty)

(* websocket.py:27, set.add *)
add(conns, w) == conns \cup {w}

(* set.remove in the place of set.discard: KeyError for an absent member *)
discard_remove(conns, w) ==
    [conns |-> conns \ {w},
     raised |-> IF w \in conns THEN "none" ELSE "KeyError"]

(* websocket.py:33, set.discard: the set without the member, and no error *)
(* for an absent one                                                       *)
discard(conns, w) == [conns |-> conns \ {w}, raised |-> "none"]

(* what a call did: whether active_connections changed, what it raised *)
NotCalled == [called |-> FALSE, changed |-> FALSE, raised |-> "none"]
Called(changed, error) ==
    [called |-> TRUE, changed |-> changed, raised |-> error]

(* websocket.py:25-27, manager.connect(w): websocket.accept() returns or   *)
(* raises; after its return, active_connections.add(websocket)             *)
connect(w, accepted) ==
    /\ active_connections' =
           IF accepted THEN add(active_connections, w)
           ELSE active_connections
    /\ it_dirty' = Touch(accepted /\ w \notin active_connections, it_dirty)
    /\ bdirty' = Touch(TRUE, bdirty)
    /\ repeated' =
           IF w \notin active_connections THEN repeated
           ELSE [repeated EXCEPT !.connect =
                    Called(active_connections' # active_connections,
                           IF accepted THEN "none" ELSE "RuntimeError")]

(* websocket.py:32-33, manager.disconnect(w):                              *)
(* active_connections.discard(websocket)                                   *)
disconnect(w) ==
    LET result == discard(active_connections, w) IN
    /\ active_connections' = result.conns
    /\ it_dirty' = Touch(w \in active_connections, it_dirty)
    /\ bdirty' = Touch(TRUE, bdirty)
    /\ repeated' =
           IF w \in active_connections THEN repeated
           ELSE [repeated EXCEPT !.disconnect =
                    Called(result.conns # active_connections, result.raised)]

(* websocket.py:70: the endpoint calls connect() for its new connection,   *)
(* whose accept() returns                                                  *)
Connect(w) ==
    /\ ws_state[w] = "closed"
    /\ ws_state' = [ws_state EXCEPT ![w] = "open"]
    /\ connect(w, TRUE)
    /\ UNCHANGED <<pipeVars, auxVars, bpc, bmsg_ok, it_used, it_seen,
                   connection,
                   disconnected, bstart>>

(* websocket.py:75-79: receive_text() raises and the endpoint calls        *)
(* disconnect()                                                            *)
Disconnect(w) ==
    /\ ws_state[w] = "open"
    /\ ws_state' = [ws_state EXCEPT ![w] = "closed"]
    /\ disconnect(w)
    /\ UNCHANGED <<pipeVars, auxVars, bpc, bmsg_ok, it_used, it_seen,
                   connection,
                   disconnected, bstart>>

(* manager is the module's object (websocket.py:62): connect() called by   *)
(* any caller with any WebSocket, one that is registered or not            *)
CallConnect(w) ==
    /\ \E accepted \in BOOLEAN : connect(w, accepted)
    /\ UNCHANGED <<pipeVars, auxVars, ws_state, bpc, bmsg_ok, it_used,
                   it_seen, connection, disconnected, bstart>>

(* disconnect() called by any caller with any WebSocket *)
CallDisconnect(w) ==
    /\ disconnect(w)
    /\ UNCHANGED <<pipeVars, auxVars, ws_state, bpc, bmsg_ok, it_used,
                   it_seen, connection, disconnected, bstart>>

(* a message json.dumps cannot serialize does not get past line 43 *)
Serializes_unchecked(ok) == TRUE

(* websocket.py:42-46: json.dumps(message, default=str) *)
Serializes(ok) == ok

(* the set iterator's next(): RuntimeError when the size of the set is    *)
(* not the size it had when the iteration began                            *)
SizeChanged(b, conns) == Cardinality(conns) # it_used[b]

(* what next() can yield: the members not yet seen, in any order; after a  *)
(* modification that kept the size, any member, or nothing (the slots      *)
(* before the iterator are not visited again, a rebuilt table is)          *)
Yields(b, conns, dirty) ==
    IF dirty THEN conns ELSE conns \ it_seen[b]
MayStop(b, conns, dirty) ==
    dirty \/ conns \ it_seen[b] = {}

(* websocket.py:38-52: broadcast up to its first suspension, for a message *)
(* that json.dumps can serialize or not                                   *)
BroadcastCall(b, oks) ==
    /\ bpc[b] = "idle"
    /\ bstart' = [bstart EXCEPT ![b] = active_connections]
    /\ \E ok \in oks :
        /\ bmsg_ok' = [bmsg_ok EXCEPT ![b] = ok]
        /\ IF active_connections = {} \/ ~Serializes(ok)
           THEN /\ bpc' = [bpc EXCEPT ![b] = "returned"]
                /\ UNCHANGED <<connection, it_seen, it_used>>
           ELSE /\ \E c \in active_connections :
                     /\ connection' = [connection EXCEPT ![b] = c]
                     /\ it_seen' = [it_seen EXCEPT ![b] = {c}]
                /\ it_used' = [it_used EXCEPT ![b] =
                                  Cardinality(active_connections)]
                /\ bpc' = [bpc EXCEPT ![b] = "sending"]
    /\ UNCHANGED <<active_connections, ws_state, it_dirty, disconnected,
                   bdirty, repeated>>

(* a broadcast of any message, called from a background task *)
BroadcastStart(b) ==
    /\ BroadcastCall(b, BOOLEAN)
    /\ UNCHANGED <<pipeVars, auxVars>>

(* websocket.py:50-59: send_text returns or raises; the loop goes on to    *)
(* the next connection, ends and removes the failed ones, or the iterator  *)
(* raises RuntimeError out of broadcast                                    *)
SendReturns(b) ==
    /\ bpc[b] = "sending"
    /\ \E sent \in BOOLEAN :
        LET failed == IF sent THEN disconnected[b]
                      ELSE disconnected[b] \cup {connection[b]}
        IN
        /\ disconnected' = [disconnected EXCEPT ![b] = failed]
        /\ IF SizeChanged(b, active_connections)
           THEN /\ bpc' = [bpc EXCEPT ![b] = "raised"]
                /\ UNCHANGED <<active_connections, it_dirty, connection,
                               it_seen>>
           ELSE \/ /\ \E c \in Yields(b, active_connections, it_dirty[b]) :
                        /\ connection' = [connection EXCEPT ![b] = c]
                        /\ it_seen' = [it_seen EXCEPT ![b] = @ \cup {c}]
                   /\ UNCHANGED <<bpc, active_connections, it_dirty>>
                \/ /\ MayStop(b, active_connections, it_dirty[b])
                   /\ active_connections' = active_connections \ failed
                   /\ it_dirty' =
                         TouchOthers(b, active_connections \cap failed # {},
                                     it_dirty)
                   /\ bpc' = [bpc EXCEPT ![b] = "returned"]
                   /\ UNCHANGED <<connection, it_seen>>
    /\ UNCHANGED <<pipeVars, auxVars, ws_state, bmsg_ok, it_used, bstart,
                   bdirty, repeated>>

(* the frame of the call b is gone, and its locals with it *)
FrameGone(b) ==
    /\ bpc' = [bpc EXCEPT ![b] = "idle"]
    /\ bmsg_ok' = [bmsg_ok EXCEPT ![b] = TRUE]
    /\ it_used' = [it_used EXCEPT ![b] = 0]
    /\ it_seen' = [it_seen EXCEPT ![b] = {}]
    /\ it_dirty' = [it_dirty EXCEPT ![b] = FALSE]
    /\ connection' = [connection EXCEPT ![b] = NoConn]
    /\ disconnected' = [disconnected EXCEPT ![b] = {}]
    /\ bstart' = [bstart EXCEPT ![b] = {}]
    /\ bdirty' = [bdirty EXCEPT ![b] = FALSE]
    /\ UNCHANGED <<active_connections, ws_state, repeated>>

(* the caller has the outcome; the locals of the call are gone *)
BroadcastReturn(b) ==
    /\ bpc[b] \in {"returned", "raised"}
    /\ FrameGone(b)

BroadcastEnds(b) ==
    /\ BroadcastReturn(b)
    /\ UNCHANGED <<pipeVars, auxVars>>

----------------------------------------------------------------------------
(* broadcast_metrics_periodically, websocket.py:85-127                     *)

MetricsCall == "b1"     \* the loop's call of manager.broadcast

(* lines 89-120: the sleep is over; both deques are pruned, the snapshot   *)
(* is taken and manager.broadcast(metrics) is called                       *)
MetricsCycle ==
    /\ mpc = "sleeping"
    /\ ~must_cancel
    /\ LET cutoff == now - TIME_WINDOW_SECONDS
           requests == PruneFront(request_timestamps, cutoff)
           errors == PruneFront(error_event_timestamps, cutoff)
       IN /\ request_timestamps' = requests
          /\ error_event_timestamps' = errors
          /\ metrics' =
                [requests_per_minute |-> Len(requests),
                 error_events_per_minute |-> Len(errors),
                 active_ws_clients |-> Cardinality(active_connections),
                 llm_status |-> llm_status(llm_circuit_state)]
    /\ mpc' = "broadcasting"
    /\ BroadcastCall(MetricsCall, {TRUE})
    /\ UNCHANGED <<pipeVars, must_cancel, lpc, active_rate_limits, bgVars, logVars,
                   monVars>>

(* lines 120-127 and 87-89: broadcast returned and the loop sleeps at line *)
(* 89 again, or it raised an exception that is logged and the loop sleeps  *)
(* at line 127                                                             *)
MetricsResume ==
    /\ mpc = "broadcasting"
    /\ BroadcastReturn(MetricsCall)
    /\ mpc' = IF bpc[MetricsCall] = "raised" THEN "recovering" ELSE "sleeping"
    /\ metrics' = NoMetrics
    /\ UNCHANGED <<pipeVars, winVars, must_cancel, lpc, active_rate_limits,
                   bgVars,
                   logVars,
                   monVars>>

(* line 127 and 87-89: the sleep of the except clause is over *)
MetricsRecovers ==
    /\ mpc = "recovering"
    /\ ~must_cancel
    /\ mpc' = "sleeping"
    /\ UNCHANGED <<pipeVars, wsVars, winVars, metrics, must_cancel, lpc,
                   active_rate_limits, bgVars, logVars, monVars>>

(* the metrics task is suspended in an await *)
Suspended ==
    \/ mpc \in {"sleeping", "recovering"}
    \/ mpc = "broadcasting" /\ InFlight(MetricsCall)

(* a loop that takes the cancellation for one more error to log *)
AfterCancel_retries(at) == "recovering"

(* where CancelledError takes the task: thrown at line 89 or out of line   *)
(* 120 it is caught at line 122 and the loop breaks; thrown at line 127,   *)
(* outside the try, it ends the task as cancelled                          *)
AfterCancel(at) == IF at = "recovering" THEN "cancelled" ELSE "ended"

MetricsOver == mpc \in {"ended", "cancelled"}

(* the CancelledError is thrown into the task where it is suspended; out   *)
(* of send_text it passes the except Exception of line 53 and leaves       *)
(* broadcast before line 59                                                *)
MetricsCancelled ==
    /\ must_cancel
    /\ Suspended
    /\ must_cancel' = FALSE
    /\ mpc' = AfterCancel(mpc)
    /\ metrics' = NoMetrics
    /\ IF mpc = "broadcasting" THEN FrameGone(MetricsCall)
       ELSE UNCHANGED wsVars
    /\ UNCHANGED <<pipeVars, winVars, lpc, active_rate_limits, bgVars, logVars,
                   monVars>>

----------------------------------------------------------------------------
(* lifespan, main.py:94-110: the shutdown of the application               *)

(* lines 97-100: the metrics task is cancelled and awaited *)
Shutdown ==
    /\ lpc = "serving"
    /\ lpc' = "await_metrics"
    /\ must_cancel' = ~MetricsOver
    /\ UNCHANGED <<pipeVars, wsVars, winVars, mpc, metrics,
                   active_rate_limits, bgVars, logVars, monVars>>

(* a request is counted: the append to request_timestamps *)
RecordRequest ==
    /\ request_timestamps' =
           DequeAppend(request_timestamps, now, MaxTimestamps)
    /\ UNCHANGED <<pipeVars, wsVars, error_event_timestamps, loopVars,
                   active_rate_limits, bgVars, logVars, monVars>>

----------------------------------------------------------------------------
(* run_simulation_background_task, simulation.py:17-107                    *)

StatusCall == "b2"      \* the task's calls of manager.broadcast
NotStarted == -1        \* simulation.py:39, exit_code = -1
ExitCodes == {0, 1, -1} \* process.returncode: 0, an error, killed by SIGHUP
Terminal == {"completed", "failed", "error"}

(* the frame of the task: its position, its locals exit_code and stderr    *)
(* (bound by line 53 only), the exception that is propagating, where it    *)
(* goes on after the broadcast it awaits, and the statuses it has given to *)
(* manager.broadcast                                                       *)
Frame(pc, code, bound, exc, next, caught, sent) ==
    [pc |-> pc, exit_code |-> code, stderr_bound |-> bound,
     exception |-> exc, then |-> next, on_raise |-> caught,
     statuses |-> sent]
NotSimulating == Frame("idle", NotStarted, FALSE, FALSE, "", "", <<>>)

simKept == <<pipeVars, winVars, loopVars, active_rate_limits, log_lock,
             persist, persisted, logVars, monVars>>

(* lines 67 and 74, `if stderr:`: the name is a local that only line 53    *)
(* binds; read before that, it raises UnboundLocalError                    *)
ReadsUnbound(frame) == ~frame.stderr_bound

(* `await manager.broadcast({... "status": status ...})`: the call is made *)
(* and the task goes on at next when it returns, at caught when it raises  *)
SimBroadcast(status, next, caught) ==
    /\ BroadcastCall(StatusCall, {TRUE})
    /\ simulation' = [simulation EXCEPT
           !.pc = "broadcast", !.then = next, !.on_raise = caught,
           !.statuses = Append(@, status)]
    /\ UNCHANGED simKept

(* lines 22-43: the task starts; without the script it broadcasts "error"  *)
(* and returns, else it broadcasts "running" inside the try                *)
SimStart ==
    /\ simulation.pc \in {"idle", "over"}
    /\ BroadcastCall(StatusCall, {TRUE})
    /\ \E script \in BOOLEAN :
         simulation' =
            IF script
            THEN Frame("broadcast", NotStarted, FALSE, FALSE,
                       "spawn", "except", <<"running">>)
            ELSE Frame("broadcast", NotStarted, FALSE, FALSE,
                       "end", "escape", <<"error">>)
    /\ UNCHANGED simKept

(* manager.broadcast returns or raises *)
SimBroadcastDone ==
    /\ simulation.pc = "broadcast"
    /\ BroadcastReturn(StatusCall)
    /\ simulation' =
          IF bpc[StatusCall] = "raised"
          THEN [simulation EXCEPT
                  !.pc = IF simulation.on_raise = "escape"
                         THEN "end" ELSE simulation.on_raise,
                  !.exception = simulation.on_raise # "except"]
          ELSE [simulation EXCEPT !.pc = simulation.then]
    /\ UNCHANGED simKept

(* lines 45-61: the subprocess is started and awaited; starting it or      *)
(* awaiting it raises, or it ends with a return code and stderr is bound   *)
SimRun ==
    /\ simulation.pc = "spawn"
    /\ \/ simulation' = [simulation EXCEPT !.pc = "except"]
       \/ \E code \in ExitCodes :
             simulation' = [simulation EXCEPT
                !.pc = "finally", !.exit_code = code, !.stderr_bound = TRUE]
    /\ UNCHANGED <<simKept, wsVars>>

(* lines 63-66 and 69-73: the exception is caught and "error" is broadcast *)
SimExcept ==
    /\ simulation.pc = "except"
    /\ SimBroadcast("error", "after_error", "finally")

(* lines 67-68 and 74-75: `if stderr:` inside the except clause *)
SimAfterError ==
    /\ simulation.pc = "after_error"
    /\ simulation' = [simulation EXCEPT
           !.pc = "finally", !.exception = ReadsUnbound(simulation)]
    /\ UNCHANGED <<simKept, wsVars>>

(* lines 77-108: the finally clause broadcasts "completed" for the exit    *)
(* code 0, "failed" for any other than -1, and nothing for -1              *)
SimFinally ==
    /\ simulation.pc = "finally"
    /\ IF simulation.exit_code = 0
       THEN SimBroadcast("completed", "end", "escape")
       ELSE IF simulation.exit_code # NotStarted
       THEN SimBroadcast("failed", "end", "escape")
       ELSE /\ simulation' = [simulation EXCEPT !.pc = "end"]
            /\ UNCHANGED <<simKept, wsVars>>

(* the task is over: it has returned, or its exception has left it *)
SimEnd ==
    /\ simulation.pc = "end"
    /\ simulation' = [simulation EXCEPT !.pc = "over"]
    /\ UNCHANGED <<simKept, wsVars>>

----------------------------------------------------------------------------
(* log_secure_attack_event called from threads, utils.py:93-127: the      *)
(* read-modify-write of the log file under app_state.log_lock              *)

Writers == {"t1", "t2"}
Unlocked == "none"
NotPersisting == [pc |-> "idle", attack_log |-> 0, failed |-> FALSE]

(* a writer that does not wait for the lock *)
CanAcquire_always(lock) == TRUE

(* threading.Lock.acquire: blocks while another thread holds the lock *)
CanAcquire(lock) == lock = Unlocked

(* line 96: with app_state.log_lock *)
PersistAcquire(w) ==
    /\ persist[w].pc = "idle"
    /\ CanAcquire(log_lock)
    /\ log_lock' = w
    /\ persist' = [persist EXCEPT ![w].pc = "locked"]
    /\ UNCHANGED <<pipeVars, wsVars, winVars, loopVars, active_rate_limits,
                   persisted, simulation, logVars, monVars>>

(* lines 97-112: the file is read; a missing or empty file, one refused    *)
(* with a JSONDecodeError and one that is no list is an empty list; any    *)
(* other error of the read is caught at lines 123-127                      *)
PersistRead(w) ==
    /\ persist[w].pc = "locked"
    /\ persist' = [persist EXCEPT ![w] =
           IF ReadRaises(attack_log, sink)
           THEN [pc |-> "leaving", attack_log |-> 0, failed |-> TRUE]
           ELSE [pc |-> "read",
                 attack_log |-> IF attack_log.kind = "list"
                                THEN attack_log.entries ELSE 0,
                 failed |-> FALSE]]
    /\ UNCHANGED <<pipeVars, wsVars, winVars, loopVars, active_rate_limits,
                   log_lock, persisted, simulation, logVars, monVars>>

(* lines 114-120: the entry is appended and the whole list is written; an  *)
(* error of the write is caught at lines 122-127 and leaves the file as it *)
(* was, truncated or cut short                                             *)
PersistWrite(w) ==
    /\ persist[w].pc = "read"
    /\ IF sink = "write_fails"
       THEN /\ attack_log' \in {attack_log, EmptyFile, InvalidJSON}
            /\ persisted' = IF attack_log' = attack_log THEN persisted ELSE 0
            /\ persist' = [persist EXCEPT ![w].pc = "leaving",
                                          ![w].failed = TRUE]
       ELSE /\ attack_log' =
                  File("list", IF persist[w].attack_log >= LogCap
                               THEN LogCap ELSE persist[w].attack_log + 1)
            /\ persisted' = IF persisted >= LogCap THEN LogCap
                            ELSE persisted + 1
            /\ persist' = [persist EXCEPT ![w].pc = "leaving"]
    /\ UNCHANGED <<pipeVars, wsVars, winVars, loopVars, active_rate_limits,
                   log_lock, simulation, sink, threat_events,
                   attack_history, log_answer, logs_answer, monVars>>

(* the with block is left, by its end or by a caught exception, and the    *)
(* lock is released; the call returns                                      *)
PersistRelease(w) ==
    /\ persist[w].pc = "leaving"
    /\ log_lock' = IF log_lock = w THEN Unlocked ELSE log_lock
    /\ persist' = [persist EXCEPT ![w] = NotPersisting]
    /\ UNCHANGED <<pipeVars, wsVars, winVars, loopVars, active_rate_limits,
                   persisted, simulation, logVars, monVars>>

(* between two calls the file is removed from outside, or replaced by one  *)
(* that cannot be decoded; the entries written so far are gone             *)
LogReplaced ==
    /\ log_lock = Unlocked
    /\ \E f \in {MissingFile, Undecodable} \ {attack_log} : attack_log' = f
    /\ persisted' = 0
    /\ UNCHANGED <<pipeVars, wsVars, winVars, loopVars, active_rate_limits,
                   log_lock, persist, simulation, sink, threat_events,
                   attack_history, log_answer, logs_answer, monVars>>

----------------------------------------------------------------------------
(* The background tasks of handle_event, endpoints.py:115-119 and 137-151: *)
(* they run after the response was sent, one after the other in the order  *)
(* they were added, and an exception of one ends the run                   *)

EventCall == "b2"       \* the tasks' calls of manager.broadcast
WEBSITE_MONITOR == "WEBSITE_MONITOR"

(* what the tasks leave alone *)
requestVars == <<now, pipeline, ip, idx, all_detections, critical_found,
                 invoked, llm_call, risk_score, timestamp, initial_report,
                 logged, response, rate_limited_ips, llm_circuit_state,
                 peer_pc, peer_probe, raised>>

(* endpoints.py:139-141, the reports update_event_with_location enriches *)
Locates(i) == i # "" /\ i # WEBSITE_MONITOR

(* endpoints.py:146-148, updated_report: a copy of the report with the     *)
(* location found and "update": True                                       *)
updated_report(report) == [report EXCEPT !.update = TRUE]

(* the response is sent and the run of the background tasks begins *)
Dispatch(h) ==
    /\ hpc[h] = "done"
    /\ background_tasks[h] # <<>>
    /\ hpc' = [hpc EXCEPT ![h] = "background"]
    /\ UNCHANGED <<requestVars, background_tasks, published, wsVars,
                   auxVars>>

(* notify_alerts(initial_report) runs and returns *)
Notify(h) ==
    /\ hpc[h] = "background"
    /\ background_tasks[h] # <<>>
    /\ Head(background_tasks[h]) = "notify_alerts"
    /\ background_tasks' = [background_tasks EXCEPT ![h] = Tail(@)]
    /\ UNCHANGED <<requestVars, hpc, published, wsVars, auxVars>>

(* lines 116-117: manager.broadcast is called with the initial report *)
BroadcastInitial(h) ==
    /\ hpc[h] = "background"
    /\ background_tasks[h] # <<>>
    /\ Head(background_tasks[h]) = "broadcast"
    /\ published' = [published EXCEPT ![h] = Append(@, initial_report[h])]
    /\ BroadcastCall(EventCall, {TRUE})
    /\ hpc' = [hpc EXCEPT ![h] = "broadcasting"]
    /\ UNCHANGED <<requestVars, background_tasks, auxVars>>

(* lines 137-145: update_event_with_location returns at once for a report *)
(* without a source to locate, or awaits get_location_from_ip              *)
Locate(h) ==
    /\ hpc[h] = "background"
    /\ background_tasks[h] # <<>>
    /\ Head(background_tasks[h]) = "update_event_with_location"
    /\ IF Locates(initial_report[h].ip)
       THEN /\ hpc' = [hpc EXCEPT ![h] = "locating"]
            /\ UNCHANGED background_tasks
       ELSE /\ background_tasks' = [background_tasks EXCEPT ![h] = Tail(@)]
            /\ UNCHANGED hpc
    /\ UNCHANGED <<requestVars, published, wsVars, auxVars>>

(* lines 145-150: the location is there, found or the default one, and     *)
(* manager.broadcast is called with the updated report                     *)
BroadcastUpdate(h) ==
    /\ hpc[h] = "locating"
    /\ published' = [published EXCEPT
                        ![h] = Append(@, updated_report(initial_report[h]))]
    /\ BroadcastCall(EventCall, {TRUE})
    /\ hpc' = [hpc EXCEPT ![h] = "broadcasting"]
    /\ UNCHANGED <<requestVars, background_tasks, auxVars>>

(* manager.broadcast has returned and the next task is run, or it has      *)
(* raised and the tasks that remain are not run                            *)
BroadcastDone(h) ==
    /\ hpc[h] = "broadcasting"
    /\ BroadcastReturn(EventCall)
    /\ background_tasks' = [background_tasks EXCEPT ![h] =
           IF bpc[EventCall] = "raised" THEN <<>> ELSE Tail(@)]
    /\ hpc' = [hpc EXCEPT ![h] = "background"]
    /\ UNCHANGED <<requestVars, published, auxVars>>

(* no task is left: the request and its locals are gone *)
BackgroundOver(h) ==
    /\ hpc[h] = "background"
    /\ background_tasks[h] = <<>>
    /\ hpc' = [hpc EXCEPT ![h] = "idle"]
    /\ ip' = [ip EXCEPT ![h] = NoIP]
    /\ idx' = [idx EXCEPT ![h] = 1]
    /\ all_detections' = [all_detections EXCEPT ![h] = <<>>]
    /\ critical_found' = [critical_found EXCEPT ![h] = FALSE]
    /\ invoked' = [invoked EXCEPT ![h] = <<>>]
    /\ llm_call' = [llm_call EXCEPT ![h] = "none"]
    /\ risk_score' = [risk_score EXCEPT ![h] = NoRisk]
    /\ timestamp' = [timestamp EXCEPT ![h] = NoTime]
    /\ initial_report' = [initial_report EXCEPT ![h] = NoReport]
    /\ logged' = [logged EXCEPT ![h] = "none"]
    /\ response' = [response EXCEPT ![h] = 0]
    /\ raised' = [raised EXCEPT ![h] = {}]
    /\ UNCHANGED <<now, pipeline, background_tasks, published,
                   rate_limited_ips, llm_circuit_state, peer_pc, peer_probe,
                   wsVars, auxVars>>

(* the response of an event without background tasks *)
RespondNoTasks(h) == background_tasks[h] = <<>> /\ Respond(h)

----------------------------------------------------------------------------
(* Website monitors: add_monitor_endpoint and remove_monitor_endpoint,     *)
(* endpoints.py:189-237, over start_website_monitoring and                 *)
(* stop_website_monitoring of app/services/monitoring.py                   *)

Adders == {"a1"}        \* calls of add_monitor_endpoint
Removers == {"r1", "r2"}        \* calls of remove_monitor_endpoint
NoTask == 0

(* A URL is a string, kept as the sequence of its characters. The strings  *)
(* of the model are over lower-case letters, digits and the marks          *)
(* + - . : / ? # @ [ ]: str.strip() of line 191, the lower-casing of the   *)
(* scheme and unquote() of line 224 leave such a string as it is.          *)
Letters == {"a", "b", "c", "d", "e", "f", "g", "h", "i", "j", "k", "l", "m",
            "n", "o", "p", "q", "r", "s", "t", "u", "v", "w", "x", "y", "z"}
Digits == {"0", "1", "2", "3", "4", "5", "6", "7", "8", "9"}
HexDigits == Digits \cup {"a", "b", "c", "d", "e", "f"}
scheme_chars == Letters \cup Digits \cup {"+", "-", "."}
Alphabet == scheme_chars \cup {":", "/", "?", "#", "@", "[", "]"}
NoURL == <<"none">>         \* no URL: not a string of the alphabet

(* str.find: the first position from start on that holds one of the        *)
(* characters cs, 0 when there is none                                     *)
find(text, cs, start) ==
    LET at == {i \in start..Len(text) : text[i] \in cs}
    IN IF at = {} THEN 0 ELSE CHOOSE i \in at : \A j \in at : i <= j
rfind(text, cs) ==
    LET at == {i \in 1..Len(text) : text[i] \in cs}
    IN IF at = {} THEN 0 ELSE CHOOSE i \in at : \A j \in at : j <= i

(* str.partition and str.rpartition at the character c *)
partition(text, c) ==
    LET i == find(text, {c}, 1)
    IN IF i = 0 THEN [head |-> text, sep |-> FALSE, tail |-> <<>>]
       ELSE [head |-> SubSeq(text, 1, i - 1), sep |-> TRUE,
             tail |-> SubSeq(text, i + 1, Len(text))]
rpartition(text, c) ==
    LET i == rfind(text, {c})
    IN IF i = 0 THEN [head |-> <<>>, sep |-> FALSE, tail |-> text]
       ELSE [head |-> SubSeq(text, 1, i - 1), sep |-> TRUE,
             tail |-> SubSeq(text, i + 1, Len(text))]

(* str.split at the character c *)
RECURSIVE split(_, _)
split(text, c) ==
    LET p == partition(text, c)
    IN IF p.sep THEN <<p.head>> \o split(p.tail, c) ELSE <<text>>

startswith(text, prefix) ==
    Len(text) >= Len(prefix) /\ SubSeq(text, 1, Len(prefix)) = prefix
isdigit(text) == text # <<>> /\ \A i \in 1..Len(text) : text[i] \in Digits

(* int() of a run of digits *)
DigitValue(c) ==
    CHOOSE n \in 0..9 :
        <<"0", "1", "2", "3", "4", "5", "6", "7", "8", "9">>[n + 1] = c
RECURSIVE int(_)
int(text) ==
    IF text = <<>> THEN 0
    ELSE 10 * int(SubSeq(text, 1, Len(text) - 1)) + DigitValue(text[Len(text)])

(* ipaddress.IPv4Address accepts the text: four octets of one to three    *)
(* digits without a leading zero, none above 255                           *)
IsIPv4Address(text) ==
    LET octets == split(text, ".")
    IN /\ Len(octets) = 4
       /\ \A k \in 1..4 :
            /\ isdigit(octets[k])
            /\ Len(octets[k]) <= 3
            /\ octets[k] = <<"0">> \/ octets[k][1] # "0"
            /\ int(octets[k]) <= 255

(* ipaddress.IPv6Address accepts the text: at most eight groups of one to  *)
(* four hex digits, the last two of which an IPv4 address can stand for,   *)
(* exactly eight unless one "::" stands for the missing ones. parts are    *)
(* the groups between the colons, skips the places of an empty group that  *)
(* is neither the first nor the last                                       *)
hextet(part) ==
    /\ part # <<>>
    /\ Len(part) <= 4
    /\ \A i \in 1..Len(part) : part[i] \in HexDigits
hextets(parts, skips) ==
    LET n == Len(parts)
        skip_index == (CHOOSE i \in skips : TRUE) - 1
        hi == IF parts[1] = <<>> THEN skip_index - 1 ELSE skip_index
        lo == IF parts[n] = <<>> THEN n - skip_index - 2
              ELSE n - skip_index - 1
    IN /\ n <= 9
       /\ Cardinality(skips) <= 1
       /\ IF skips # {}
          THEN /\ parts[1] = <<>> => hi = 0
               /\ parts[n] = <<>> => lo = 0
               /\ 8 - (hi + lo) >= 1
               /\ \A i \in 1..hi : hextet(parts[i])
               /\ \A i \in (n - lo + 1)..n : hextet(parts[i])
          ELSE /\ n = 8
               /\ \A i \in 1..n : hextet(parts[i])
ip_int_from_parts(parts) ==
    hextets(parts, {i \in 2..(Len(parts) - 1) : parts[i] = <<>>})
ip_int_from_split(split6) ==
    /\ Len(split6) >= 3
    /\ IF find(split6[Len(split6)], {"."}, 1) # 0
       THEN /\ IsIPv4Address(split6[Len(split6)])
            /\ ip_int_from_parts(SubSeq(split6, 1, Len(split6) - 1)
                                     \o <<<<"0">>, <<"0">>>>)
       ELSE ip_int_from_parts(split6)
IsIPv6Address(text) == text # <<>> /\ ip_int_from_split(split(text, ":"))

(* urllib's _check_bracketed_host raises ValueError: the text between the  *)
(* brackets is neither an IPvFuture address ("v", hex digits, ".", more)   *)
(* nor an IPv6 address                                                     *)
BracketedHostRaises(host) ==
    IF startswith(host, <<"v">>)
    THEN LET dot == find(host, Alphabet \ HexDigits, 2)
         IN ~(dot > 2 /\ host[dot] = "." /\ Len(host) > dot)
    ELSE ~IsIPv6Address(host)

(* urlparse(url): the scheme is what stands before the first ":" when it   *)
(* begins with a letter and holds scheme characters only; the netloc is    *)
(* what follows "//" up to the next "/", "?" or "#"; ValueError for a      *)
(* netloc with only one of "[" and "]", or with a bracketed host that is   *)
(* no address. i is the place of the first ":", rest what follows the      *)
(* scheme, delim the place where the netloc ends                           *)
has_scheme(url, i) ==
    /\ i > 1
    /\ url[1] \in Letters
    /\ \A j \in 1..(i - 1) : url[j] \in scheme_chars
splitnetloc(rest, delim) ==
    IF ~startswith(rest, <<"/", "/">>) THEN <<>>
    ELSE IF delim = 0 THEN SubSeq(rest, 3, Len(rest))
    ELSE SubSeq(rest, 3, delim - 1)
netloc_raises(netloc, open, close) ==
    \/ open # close
    \/ /\ open /\ close
       /\ BracketedHostRaises(
             partition(partition(netloc, "[").tail, "]").head)
SplitResult(scheme, netloc) ==
    [scheme |-> scheme, netloc |-> netloc,
     raises |-> netloc_raises(netloc, find(netloc, {"["}, 1) # 0,
                              find(netloc, {"]"}, 1) # 0)]
urlsplit(scheme, rest) ==
    SplitResult(scheme, splitnetloc(rest, find(rest, {"/", "?", "#"}, 3)))
urlparse(url) ==
    IF has_scheme(url, find(url, {":"}, 1))
    THEN urlsplit(SubSeq(url, 1, find(url, {":"}, 1) - 1),
                  SubSeq(url, find(url, {":"}, 1) + 1, Len(url)))
    ELSE urlsplit(<<>>, url)

(* urllib's _hostinfo: the host and the port text of a netloc; the user    *)
(* information ends at the last "@"; a host in brackets ends at "]" and    *)
(* its port follows the next ":"; any other host ends at the first ":"     *)
hostinfo(netloc) ==
    LET info == rpartition(netloc, "@").tail
        bracketed == partition(info, "[")
    IN IF bracketed.sep
       THEN LET host == partition(bracketed.tail, "]")
            IN [hostname |-> host.head,
                port |-> partition(host.tail, ":").tail]
       ELSE LET host == partition(info, ":")
            IN [hostname |-> host.head, port |-> host.tail]

(* the port text of a netloc, <<>> when it has none *)
PortText(netloc) == hostinfo(netloc).port

(* urlparse(url).port raises ValueError: the port text is no run of        *)
(* digits, or the number is above 65535 (int() accepts leading zeros)      *)
lstrip_zeros(text) ==
    SubSeq(text,
           Cardinality({i \in 1..Len(text) : \A j \in 1..i : text[j] = "0"})
               + 1,
           Len(text))
port_raises(text, digits) ==
    /\ text # <<>>
    /\ \/ ~isdigit(text)
       \/ Len(digits) > 5
       \/ int(digits) > 65535
PortRaises(netloc) ==
    port_raises(PortText(netloc), lstrip_zeros(PortText(netloc)))

(* urlparse(url).port where it does not raise: <<>> for None, else the     *)
(* number                                                                  *)
Port(netloc) ==
    IF PortText(netloc) = <<>> \/ PortRaises(netloc) THEN <<>>
    ELSE <<int(PortText(netloc))>>

(* endpoints.py:195-197: the netloc begins with "localhost", "127.0.0.1"   *)
(* or "[::1]", or it matches ^\d{1,3}(\.\d{1,3}){3}(:\d+)?$                *)
IsLocal(netloc) ==
    \/ \E prefix \in {<<"l", "o", "c", "a", "l", "h", "o", "s", "t">>,
                      <<"1", "2", "7", ".", "0", ".", "0", ".", "1">>,
                      <<"[", ":", ":", "1", "]">>} :
          startswith(netloc, prefix)
    \/ LET address == partition(netloc, ":")
           groups == split(address.head, ".")
       IN /\ Len(groups) = 4
          /\ \A k \in 1..4 : isdigit(groups[k]) /\ Len(groups[k]) <= 3
          /\ address.sep => isdigit(address.tail)

HTTP == <<"h", "t", "t", "p">>
HTTPS == <<"h", "t", "t", "p", "s">>

(* endpoints.py:193-204: a URL without scheme is prefixed: "http://" for   *)
(* a local address whose port is not 443, "https://" for every other;      *)
(* parsed_url is urlparse(url) of line 192                                 *)
Prefixed(url, parsed_url) ==
    IF parsed_url.scheme # <<>> THEN url
    ELSE IF IsLocal(parsed_url.netloc) /\ Port(parsed_url.netloc) # <<443>>
         THEN HTTP \o <<":", "/", "/">> \o url
         ELSE HTTPS \o <<":", "/", "/">> \o url
WithScheme(url) == Prefixed(url, urlparse(url))

(* endpoints.py:192-204 end in a ValueError, outside every try of the      *)
(* endpoint: urlparse at line 192, the port of a local address without     *)
(* scheme read at line 198, or urlparse of the prefixed URL at line 204    *)
Raises(url, parsed_url) ==
    \/ parsed_url.raises
    \/ /\ parsed_url.scheme = <<>>
       /\ \/ IsLocal(parsed_url.netloc) /\ PortRaises(parsed_url.netloc)
          \/ urlparse(Prefixed(url, parsed_url)).raises
URLRaises(url) == Raises(url, urlparse(url))

(* endpoints.py:206, parsed_url being the result of line 192 or 204 *)
Valid(parsed_url) ==
    /\ parsed_url.scheme \in {HTTP, HTTPS}
    /\ parsed_url.netloc # <<>>
ValidURL(url) == Valid(urlparse(url))

(* config.url of the requests: "https://a.example", "a.example",           *)
(* "http://:80", "ftp://[::1][::1", "http://", "//a.example",              *)
(* "//localhost:8000", "//localhost:443",                                  *)
(* "//localhost:8000:443", "//localhost:443[::1]", "//10.0.0.1:99999",     *)
(* "https://[::1", "[::1"                                                  *)
A_EXAMPLE == <<"a", ".", "e", "x", "a", "m", "p", "l", "e">>
LOCALHOST == <<"l", "o", "c", "a", "l", "h", "o", "s", "t">>
SLASHES == <<"/", "/">>
URLInputs ==
    {HTTPS \o <<":">> \o SLASHES \o A_EXAMPLE,
     A_EXAMPLE,
     HTTP \o <<":">> \o SLASHES \o <<":", "8", "0">>,
     <<"f", "t", "p", ":">> \o SLASHES
          \o <<"[", ":", ":", "1", "]", "[", ":", ":", "1">>,
     HTTP \o <<":">> \o SLASHES,
     SLASHES \o A_EXAMPLE,
     SLASHES \o LOCALHOST \o <<":", "8", "0", "0", "0">>,
     SLASHES \o LOCALHOST \o <<":", "4", "4", "3">>,
     SLASHES \o LOCALHOST
             \o <<":", "8", "0", "0", "0", ":", "4", "4", "3">>,
     SLASHES \o LOCALHOST
             \o <<":", "4", "4", "3", "[", ":", ":", "1", "]">>,
     SLASHES \o <<"1", "0", ".", "0", ".", "0", ".", "1",
                  ":", "9", "9", "9", "9", "9">>,
     HTTPS \o <<":">> \o SLASHES \o <<"[", ":", ":", "1">>,
     <<"[", ":", ":", "1">>}
Intervals == {10, 30, 60}       \* config.check_interval as requested
NoInterval == 0

(* lines 191-206 for each of the requests: whether they end in a          *)
(* ValueError, the URL with its scheme, and whether line 206 lets it pass  *)
(* raises: lines 192-204 end in a ValueError; url: the URL after line 203 *)
Outcome(raises, url) ==
    [raises |-> raises,
     url |-> IF raises THEN NoURL ELSE url,
     valid |-> ~raises /\ ValidURL(url)]
Parsed == [u \in URLInputs |-> Outcome(URLRaises(u), WithScheme(u))]

Targets == {Parsed[u].url : u \in {v \in URLInputs : Parsed[v].valid}}

(* the outcomes of start_website_monitoring and stop_website_monitoring:   *)
(* the call returns, or raises before it has changed the registry          *)
CalleeOutcomes == {"returns", "raises"}

(* an interval below the minimum that is passed on as it is *)
ClampInterval_asGiven(n) == n

(* endpoints.py:211, max(30, config.check_interval) *)
ClampInterval(n) == IF n < MIN_CHECK_INTERVAL THEN MIN_CHECK_INTERVAL ELSE n

(* start: a task is already registered for the target *)
AlreadyMonitoring(t, registered) == t \in DOMAIN registered

(* a removal that takes every URL for a monitored one *)
IsMonitored_always(t, sites) == TRUE

(* endpoints.py:228, decoded_url in app_state.monitored_websites *)
IsMonitored(t, sites) == t \in DOMAIN sites

Without(f, t) == [x \in DOMAIN f \ {t} |-> f[x]]
With(f, t, v) == [x \in DOMAIN f \cup {t} |-> IF x = t THEN v ELSE f[x]]
Live(k) == tasks[k].st \in {"running", "cancelling"}

(* lines 191-218 with start_website_monitoring: a URL that urlparse        *)
(* refuses, or a local address without scheme whose port cannot be read,   *)
(* ends the call with the ValueError of line 192, 198 or 204; an invalid   *)
(* URL is answered 400; a target with a registered                         *)
(* task is answered "already monitoring"; any other is registered and gets *)
(* a new task, or the start raises and the call is answered 500            *)
AddMonitor(a) ==
    /\ apc[a] = "idle"
    /\ apc' = [apc EXCEPT ![a] = "done"]
    /\ \E u \in URLInputs, n \in Intervals, outcome \in CalleeOutcomes :
         LET url == Parsed[u].url IN
         /\ IF Parsed[u].raises
            THEN /\ add_response' = [add_response EXCEPT ![a] = "ValueError"]
                 /\ add_url' = [add_url EXCEPT ![a] = u]
                 /\ UNCHANGED <<registry, check_interval>>
            ELSE IF ~Parsed[u].valid
            THEN /\ add_response' = [add_response EXCEPT ![a] = "400"]
                 /\ add_url' = [add_url EXCEPT ![a] = u]
                 /\ UNCHANGED <<registry, check_interval>>
            ELSE /\ add_url' = [add_url EXCEPT ![a] = url]
                 /\ check_interval' = [check_interval EXCEPT ![a] = n]
                 /\ IF AlreadyMonitoring(url, active_monitoring_tasks)
                    THEN /\ add_response' =
                               [add_response EXCEPT ![a] = "already_monitoring"]
                         /\ UNCHANGED registry
                    ELSE IF outcome = "raises"
                    THEN /\ add_response' = [add_response EXCEPT ![a] = "500"]
                         /\ UNCHANGED registry
                    ELSE /\ Len(tasks) < MaxTasks
                         /\ add_response' =
                               [add_response EXCEPT ![a] = "monitoring_started"]
                         /\ monitored_websites' =
                               With(monitored_websites, url, ClampInterval(n))
                         /\ tasks' =
                               Append(tasks, [target |-> url, st |-> "running"])
                         /\ active_monitoring_tasks' =
                               With(active_monitoring_tasks, url,
                                    Len(tasks) + 1)
                         /\ UNCHANGED website_health_history
    /\ UNCHANGED <<pipeVars, wsVars, winVars, loopVars, active_rate_limits,
                   bgVars,
                   logVars,
                   rpc, decoded_url, awaited, remove_response>>

(* the answer is sent; the locals of the call are gone *)
AddReturns(a) ==
    /\ apc[a] = "done"
    /\ apc' = [apc EXCEPT ![a] = "idle"]
    /\ add_url' = [add_url EXCEPT ![a] = NoURL]
    /\ add_response' = [add_response EXCEPT ![a] = "none"]
    /\ check_interval' = [check_interval EXCEPT ![a] = NoInterval]
    /\ UNCHANGED <<pipeVars, wsVars, winVars, loopVars, active_rate_limits,
                   bgVars,
                   logVars,
                   registry, rpc, decoded_url, awaited, remove_response>>

(* lines 222-237 with the start of stop_website_monitoring: a URL that is  *)
(* not monitored is answered 404; else the target's task is cancelled and  *)
(* awaited, or the stop raises and the call is answered 500                *)
RemoveMonitor(r) ==
    /\ rpc[r] = "idle"
    /\ \E t \in Targets, outcome \in CalleeOutcomes :
         /\ decoded_url' = [decoded_url EXCEPT ![r] = t]
         /\ IF ~IsMonitored(t, monitored_websites)
            THEN /\ remove_response' = [remove_response EXCEPT ![r] = 404]
                 /\ rpc' = [rpc EXCEPT ![r] = "done"]
                 /\ UNCHANGED <<registry, awaited>>
            ELSE IF outcome = "raises"
            THEN /\ remove_response' = [remove_response EXCEPT ![r] = 500]
                 /\ rpc' = [rpc EXCEPT ![r] = "done"]
                 /\ UNCHANGED <<registry, awaited>>
            ELSE /\ rpc' = [rpc EXCEPT ![r] = "awaiting"]
                 /\ IF t \in DOMAIN active_monitoring_tasks
                    THEN LET k == active_monitoring_tasks[t] IN
                         /\ awaited' = [awaited EXCEPT ![r] = k]
                         /\ tasks' = [tasks EXCEPT ![k].st =
                               IF @ = "running" THEN "cancelling" ELSE @]
                    ELSE UNCHANGED <<awaited, tasks>>
                 /\ UNCHANGED <<monitored_websites, active_monitoring_tasks,
                                website_health_history, remove_response>>
    /\ UNCHANGED <<pipeVars, wsVars, winVars, loopVars, active_rate_limits,
                   bgVars,
                   logVars,
                   apc, add_url, add_response, check_interval>>

(* stop: `await task` returns when the cancelled task has ended *)
AwaitOver(k) == k # NoTask => tasks[k].st = "done"

(* the awaited task has ended: the target is deregistered; lines 232-233 *)
RemoveMonitorDone(r) ==
    /\ rpc[r] = "awaiting"
    /\ AwaitOver(awaited[r])
    /\ monitored_websites' = Without(monitored_websites, decoded_url[r])
    /\ active_monitoring_tasks' =
           Without(active_monitoring_tasks, decoded_url[r])
    /\ website_health_history' =
           Without(website_health_history, decoded_url[r])
    /\ remove_response' = [remove_response EXCEPT ![r] = 200]
    /\ rpc' = [rpc EXCEPT ![r] = "done"]
    /\ UNCHANGED <<pipeVars, wsVars, winVars, loopVars, active_rate_limits,
                   bgVars,
                   logVars,
                   tasks, apc, add_url, add_response, check_interval,
                   decoded_url, awaited>>

(* the answer is sent; the locals of the call are gone *)
RemoveReturns(r) ==
    /\ rpc[r] = "done"
    /\ rpc' = [rpc EXCEPT ![r] = "idle"]
    /\ decoded_url' = [decoded_url EXCEPT ![r] = NoURL]
    /\ awaited' = [awaited EXCEPT ![r] = NoTask]
    /\ remove_response' = [remove_response EXCEPT ![r] = 0]
    /\ UNCHANGED <<pipeVars, wsVars, winVars, loopVars, active_rate_limits,
                   bgVars,
                   logVars,
                   registry, apc, add_url, add_response, check_interval>>

(* a monitor task makes its periodic check and appends the HealthRecord    *)
(* to the bounded history of its target                                    *)
MonitorCheck(k) ==
    /\ k \in 1..Len(tasks)
    /\ tasks[k].st = "running"
    /\ LET t == tasks[k].target
           n == IF t \in DOMAIN website_health_history
                THEN website_health_history[t] ELSE 0
       IN website_health_history' =
              With(website_health_history, t,
                   IF n >= MaxHealth THEN MaxHealth ELSE n + 1)
    /\ UNCHANGED <<pipeVars, wsVars, winVars, loopVars, active_rate_limits,
                   bgVars,
                   logVars,
                   monitored_websites, active_monitoring_tasks, tasks, apc,
                   add_url, add_response, check_interval, rpc,
                   decoded_url, awaited,
                   remove_response>>

(* a cancelled monitor task ends at its next suspension point *)
MonitorCancelled(k) ==
    /\ k \in 1..Len(tasks)
    /\ tasks[k].st = "cancelling"
    /\ tasks' = [tasks EXCEPT ![k].st = "done"]
    /\ UNCHANGED <<pipeVars, wsVars, winVars, loopVars, active_rate_limits,
                   bgVars,
                   logVars,
                   monitored_websites, active_monitoring_tasks,
                   website_health_history, apc, add_url, add_response,
                   check_interval, rpc,
                   decoded_url, awaited, remove_response>>

(* a monitor task ends by itself: it returns, or an error gets out of it;  *)
(* its entry of the task table stays                                       *)
MonitorEnds(k) ==
    /\ k \in 1..Len(tasks)
    /\ tasks[k].st = "running"
    /\ \E st \in {"finished", "failed"} :
          tasks' = [tasks EXCEPT ![k].st = st]
    /\ UNCHANGED <<pipeVars, wsVars, winVars, loopVars, active_rate_limits,
                   bgVars,
                   logVars,
                   monitored_websites, active_monitoring_tasks,
                   website_health_history, apc, add_url, add_response,
                   check_interval, rpc,
                   decoded_url, awaited, remove_response>>

(* the tasks of the task table *)
Registered == {active_monitoring_tasks[t] : t \in DOMAIN active_monitoring_tasks}

(* a task counts as ended once its cancellation was requested *)
Ended_onceCancelled(k) == tasks[k].st # "running"

(* a task that has returned, was cancelled or has ended with an error *)
Ended(k) == tasks[k].st \in {"done", "finished", "failed"}

(* main.py:100-104 with the start of stop_all_monitoring: the metrics task *)
(* has ended, by a return or as cancelled; every registered task is        *)
(* cancelled, which does nothing to one that has ended                     *)
StopAllMonitoring ==
    /\ lpc = "await_metrics"
    /\ MetricsOver
    /\ lpc' = "stop_all"
    /\ tasks' = [k \in 1..Len(tasks) |->
                    IF k \in Registered /\ tasks[k].st = "running"
                    THEN [tasks[k] EXCEPT !.st = "cancelling"]
                    ELSE tasks[k]]
    /\ UNCHANGED <<pipeVars, wsVars, winVars, mpc, metrics, must_cancel,
                   active_rate_limits, bgVars, logVars, monitored_websites,
                   active_monitoring_tasks, website_health_history, apc,
                   add_url, add_response, check_interval, rpc,
                   decoded_url, awaited,
                   remove_response>>

(* main.py:104-110: every registered task has ended, whatever its outcome; *)
(* stop_all_monitoring returns and the shutdown completes                  *)
StopAllDone ==
    /\ lpc = "stop_all"
    /\ \A k \in Registered : Ended(k)
    /\ lpc' = "closed"
    /\ UNCHANGED <<pipeVars, wsVars, winVars, mpc, metrics, must_cancel,
                   active_rate_limits, bgVars, logVars, monVars>>

(* main.py:106-108: app_state.http_client.aclose() has been awaited *)
ClientClosed == lpc = "closed"

(* requests are served until the shutdown begins *)
StartMonitor(a) == lpc = "serving" /\ AddMonitor(a)

(* a delivery of the metrics broadcast ends, unless the task is cancelled *)
DeliveryEnds == ~must_cancel /\ SendReturns(MetricsCall)

----------------------------------------------------------------------------
InitPipeWith(pipelines, tables) ==
    /\ now = 0
    /\ pipeline \in pipelines
    /\ hpc = [h \in Handlers |-> "idle"]
    /\ ip = [h \in Handlers |-> NoIP]
    /\ idx = [h \in Handlers |-> 1]
    /\ all_detections = [h \in Handlers |-> <<>>]
    /\ critical_found = [h \in Handlers |-> FALSE]
    /\ invoked = [h \in Handlers |-> <<>>]
    /\ llm_call = [h \in Handlers |-> "none"]
    /\ risk_score = [h \in Handlers |-> NoRisk]
    /\ timestamp = [h \in Handlers |-> NoTime]
    /\ initial_report = [h \in Handlers |-> NoReport]
    /\ logged = [h \in Handlers |-> "none"]
    /\ background_tasks = [h \in Handlers |-> <<>>]
    /\ published = [h \in Handlers |-> <<>>]
    /\ response = [h \in Handlers |-> 0]
    /\ rate_limited_ips \in tables
    /\ llm_circuit_state = CircuitInit
    /\ peer_pc = "idle"
    /\ peer_probe = FALSE
    /\ raised = [h \in Handlers |-> {}]

(* the process starts with an empty rate-limit table *)
InitPipe(pipelines) == InitPipeWith(pipelines, {<<>>})

InitWs ==
    /\ active_connections = {}
    /\ ws_state = [w \in Observers |-> "closed"]
    /\ bpc = [b \in Broadcasts |-> "idle"]
    /\ bmsg_ok = [b \in Broadcasts |-> TRUE]
    /\ it_used = [b \in Broadcasts |-> 0]
    /\ it_seen = [b \in Broadcasts |-> {}]
    /\ it_dirty = [b \in Broadcasts |-> FALSE]
    /\ connection = [b \in Broadcasts |-> NoConn]
    /\ disconnected = [b \in Broadcasts |-> {}]
    /\ bstart = [b \in Broadcasts |-> {}]
    /\ bdirty = [b \in Broadcasts |-> FALSE]
    /\ repeated = [connect |-> NotCalled, disconnect |-> NotCalled]

InitAuxWith(events) ==
    /\ threat_events = events
    /\ request_timestamps = <<>>
    /\ error_event_timestamps = <<>>
    /\ mpc = "sleeping"
    /\ metrics = NoMetrics
    /\ must_cancel = FALSE
    /\ lpc = "serving"
    /\ active_rate_limits = NoAnswer
    /\ log_lock = Unlocked
    /\ persist = [w \in Writers |-> NotPersisting]
    /\ persisted = 0
    /\ simulation = NotSimulating
    /\ attack_log = MissingFile
    /\ sink = "ok"
    /\ attack_history = 0
    /\ log_answer = NoLogAnswer
    /\ logs_answer = NoLogAnswer
    /\ monitored_websites = <<>>
    /\ active_monitoring_tasks = <<>>
    /\ website_health_history = <<>>
    /\ tasks = <<>>
    /\ apc = [a \in Adders |-> "idle"]
    /\ add_url = [a \in Adders |-> NoURL]
    /\ add_response = [a \in Adders |-> "none"]
    /\ check_interval = [a \in Adders |-> NoInterval]
    /\ rpc = [r \in Removers |-> "idle"]
    /\ decoded_url = [r \in Removers |-> NoURL]
    /\ awaited = [r \in Removers |-> NoTask]
    /\ remove_response = [r \in Removers |-> 0]

InitAux == InitAuxWith(Untracked)

Init == InitPipe(Pipelines) /\ InitWs /\ InitAux

(* detect_llm_anomaly registered last *)
LLMLast == {InsertAt(FastList, NumFast + 1, LLM)}
InitLLMLast == InitPipe(LLMLast) /\ InitWs /\ InitAux

(* one detector stage before detect_llm_anomaly *)
ShortPipeline == {<<1, LLM>>}
InitShort == InitPipe(ShortPipeline) /\ InitWs /\ InitAux

(* detect_llm_anomaly as the only registered detector *)
LLMOnly == {<<LLM>>}
InitLLMOnly == InitPipe(LLMOnly) /\ InitWs /\ InitAux

(* the steps of one request between two suspensions, for any outcome *)
Pipeline(h, sources) ==
    \/ Receive(h, sources)
    \/ SkipLLMInLoop(h)
    \/ RunDetector(h)
    \/ LoopEnd(h)
    \/ CallLLM(h)
    \/ LLMSucceeds(h)
    \/ NoThreat(h)
    \/ ThreatDetected(h)
    \/ Respond(h)

(* the same steps when detect_llm_anomaly is the only detector listed *)
PipelineOfLLM(h, sources) ==
    \/ Receive(h, sources)
    \/ SkipLLMInLoop(h)
    \/ LoopEnd(h)
    \/ CallLLM(h)
    \/ LLMSucceeds(h)
    \/ NoThreat(h)
    \/ ThreatDetected(h)
    \/ Respond(h)

(* the detector pipeline of one event, for every position of the LLM stage *)
NextPipe ==
    \/ \E h \in Handlers : Pipeline(h, IPs) \/ LLMFails(h)

Spec == Init /\ [][NextPipe]_vars

(* the same, with the event loop running every request it has *)
SpecPipeLive == Init /\ [][NextPipe]_vars /\ WF_vars(NextPipe)

(* the rate limiter over time, fed by the events of two sources *)
NextRate ==
    \/ \E h \in Handlers : Pipeline(h, IPs)
    \/ Tick

SpecRate == InitShort /\ [][NextRate]_vars

(* the circuit breaker over time, under concurrent calls of the LLM stage *)
NextBreaker ==
    \/ \E h \in Handlers : PipelineOfLLM(h, {"10.0.0.5"}) \/ LLMFails(h)
    \/ PeerCallLLM
    \/ PeerLLMSucceeds("10.0.0.5")
    \/ PeerLLMFails("10.0.0.5")
    \/ Tick

SpecBreaker == InitLLMOnly /\ [][NextBreaker]_vars

(* the observer set under connections, disconnections and broadcasts *)
NextBroadcast ==
    \/ \E w \in Observers :
         \/ Connect(w)
         \/ Disconnect(w)
    \/ \E b \in Broadcasts :
         \/ BroadcastStart(b)
         \/ SendReturns(b)
         \/ BroadcastEnds(b)

SpecBroadcast == InitLLMLast /\ [][NextBroadcast]_vars

(* the observer set under connect and disconnect called with any observer, *)
(* by the endpoint and by any other caller, and under one broadcast at a  *)
(* time                                                                    *)
NextManager ==
    \/ \E w \in Observers :
         \/ Connect(w)
         \/ Disconnect(w)
         \/ CallConnect(w)
         \/ CallDisconnect(w)
    \/ \E b \in {"b1"} :
         \/ BroadcastStart(b)
         \/ SendReturns(b)
         \/ BroadcastEnds(b)

SpecManager == InitLLMLast /\ [][NextManager]_vars

(* recordHighRisk on a table that holds, for the source, an expiry later  *)
(* than the one a write at time 0 gives, from events of the same source   *)
(* in flight together                                                     *)
LaterTables ==
    {[i \in {"10.0.0.5"} |-> e] :
        e \in (RATE_LIMIT_DURATION + 1)..(MaxTime + RATE_LIMIT_DURATION + 1)}
InitOverwrite == InitPipeWith(ShortPipeline, LaterTables) /\ InitWs /\ InitAux

NextOverwrite ==
    \/ \E h \in Handlers : Pipeline(h, {"10.0.0.5"})
    \/ PeerThreatDetected("10.0.0.5")
    \/ Tick

SpecOverwrite == InitOverwrite /\ [][NextOverwrite]_vars

(* the rate-limit table as the analytics endpoint reads it over time *)
NextAnalytics ==
    \/ \E h \in Handlers : PipelineOfLLM(h, IPs)
    \/ GetAnalytics
    \/ Tick

SpecAnalytics == InitLLMOnly /\ [][NextAnalytics]_vars

(* the sliding windows under events, requests and the metrics loop *)
NextWindow ==
    \/ \E h \in Handlers : PipelineOfLLM(h, {"10.0.0.5"})
    \/ RecordRequest
    \/ MetricsCycle
    \/ MetricsResume
    \/ Tick

SpecWindow == InitLLMOnly /\ [][NextWindow]_vars

(* the monitor registry under add calls, the remove calls rs and the       *)
(* monitor tasks                                                           *)
NextRegistry(rs) ==
    \/ \E a \in Adders :
         \/ AddMonitor(a)
         \/ AddReturns(a)
    \/ \E r \in rs :
         \/ RemoveMonitor(r)
         \/ RemoveMonitorDone(r)
         \/ RemoveReturns(r)
    \/ \E k \in 1..MaxTasks :
         \/ MonitorCheck(k)
         \/ MonitorCancelled(k)

(* with one remove call in flight at a time *)
NextMonitor == NextRegistry({"r1"})

SpecMonitor == InitLLMLast /\ [][NextMonitor]_vars

(* with remove calls that overlap *)
NextStops == NextRegistry(Removers)

SpecStops == InitLLMLast /\ [][NextStops]_vars

(* the metrics loop broadcasting to observers that come, go and take the  *)
(* messages sent to them                                                  *)
NextMetrics ==
    \/ \E w \in Observers :
         \/ Connect(w)
         \/ Disconnect(w)
    \/ RecordRequest
    \/ MetricsCycle
    \/ SendReturns(MetricsCall)
    \/ MetricsResume
    \/ MetricsRecovers
    \/ Tick

SpecMetrics == InitLLMOnly /\ [][NextMetrics]_vars

(* the breaker under calls that succeed or fail, read by the metrics loop *)
NextStatus ==
    \/ \E h \in Handlers :
         \/ PipelineOfLLM(h, {"10.0.0.5"})
         \/ LLMFails(h)
    \/ MetricsCycle
    \/ MetricsResume
    \/ Tick

SpecStatus == InitLLMOnly /\ [][NextStatus]_vars

(* the records of the events with a detection, and the snapshots of the   *)
(* metrics loop, over time                                                *)
InitCounted == InitPipe(LLMOnly) /\ InitWs /\ InitAuxWith(NoneYet)
NextErrors ==
    \/ \E h \in Handlers : PipelineOfLLM(h, {"10.0.0.5"})
    \/ MetricsCycle
    \/ MetricsResume
    \/ Tick

SpecErrors == InitCounted /\ [][NextErrors]_vars

(* the simulation task, broadcasting to observers that come and go *)
NextSimulation ==
    \/ \E w \in Observers :
         \/ Connect(w)
         \/ Disconnect(w)
    \/ SimStart
    \/ SimBroadcastDone
    \/ SimRun
    \/ SimExcept
    \/ SimAfterError
    \/ SimFinally
    \/ SimEnd
    \/ SendReturns(StatusCall)

SpecSimulation == InitLLMOnly /\ [][NextSimulation]_vars

(* the attack log written from threads, with a file system that fails *)
NextPersist ==
    \/ \E w \in Writers :
         \/ PersistAcquire(w)
         \/ PersistRead(w)
         \/ PersistWrite(w)
         \/ PersistRelease(w)
    \/ SinkChanges
    \/ LogReplaced

SpecPersist == InitLLMOnly /\ [][NextPersist]_vars

(* the attack log under events, its readers and a failing file system *)
NextLog ==
    \/ \E h \in Handlers : PipelineOfLLM(h, {"10.0.0.5"})
    \/ GetAttackLog
    \/ GetAttackLogs
    \/ SinkChanges
    \/ LogDamaged

SpecLog == InitLLMOnly /\ [][NextLog]_vars

(* the incident reports of events, broadcast to observers that come and go *)
NextIncident ==
    \/ \E h \in Handlers :
         \/ Receive(h, {"10.0.0.5", WEBSITE_MONITOR})
         \/ SkipLLMInLoop(h)
         \/ LoopEnd(h)
         \/ CallLLM(h)
         \/ LLMSucceeds(h)
         \/ NoThreat(h)
         \/ ThreatDetected(h)
         \/ RespondNoTasks(h)
         \/ Dispatch(h)
         \/ Notify(h)
         \/ BroadcastInitial(h)
         \/ Locate(h)
         \/ BroadcastUpdate(h)
         \/ BroadcastDone(h)
         \/ BackgroundOver(h)
    \/ \E w \in {"ws1"} :
         \/ Connect(w)
         \/ Disconnect(w)
    \/ SendReturns(EventCall)
    \/ Tick

SpecIncident == InitLLMOnly /\ [][NextIncident]_vars

(* the shutdown of the application with its metrics loop and monitors *)
NextShutdown ==
    \/ \E w \in {"ws1"} :
         \/ Connect(w)
         \/ Disconnect(w)
    \/ MetricsCycle
    \/ DeliveryEnds
    \/ MetricsResume
    \/ MetricsRecovers
    \/ MetricsCancelled
    \/ \E a \in Adders :
         \/ StartMonitor(a)
         \/ AddReturns(a)
    \/ \E k \in 1..MaxTasks :
         \/ MonitorEnds(k)
         \/ MonitorCancelled(k)
    \/ Shutdown
    \/ StopAllMonitoring
    \/ StopAllDone

(* the event loop runs a task whose cancellation is pending and a task     *)
(* whose await is over; nothing is assumed of the observers' deliveries    *)
FairShutdown ==
    /\ WF_vars(MetricsResume)
    /\ WF_vars(MetricsCancelled)
    /\ WF_vars(StopAllMonitoring)
    /\ WF_vars(StopAllDone)
    /\ \A k \in 1..MaxTasks : WF_vars(MonitorCancelled(k))

SpecShutdown == InitLLMOnly /\ [][NextShutdown]_vars /\ FairShutdown

(* the shutdown beside monitor tasks that make their checks with the       *)
(* shared HTTP client                                                      *)
NextClose ==
    \/ \E w \in {"ws1"} :
         \/ Connect(w)
         \/ Disconnect(w)
    \/ MetricsCycle
    \/ DeliveryEnds
    \/ MetricsResume
    \/ MetricsRecovers
    \/ MetricsCancelled
    \/ \E a \in {"a1"} :
         \/ StartMonitor(a)
         \/ AddReturns(a)
    \/ \E k \in 1..MaxTasks :
         \/ MonitorCheck(k)
         \/ MonitorEnds(k)
         \/ MonitorCancelled(k)
    \/ Shutdown
    \/ StopAllMonitoring
    \/ StopAllDone

SpecClose == InitLLMOnly /\ [][NextClose]_vars

----------------------------------------------------------------------------
(* Properties of the detector pipeline                                     *)

IsFast(st) == st # LLM
FastOrder == SelectSeq(pipeline, IsFast)
InSeq(e, sq) == \E k \in 1..Len(sq) : sq[k] = e
PositionIn(e, sq) == CHOOSE k \in 1..Len(sq) : sq[k] = e
FastCritical(h, i) ==
    /\ i \in 1..Len(all_detections[h])
    /\ all_detections[h][i].stage # LLM
    /\ all_detections[h][i].severity = "CRITICAL"

(* C1: if a stage run before the expensive stage returned a CRITICAL      *)
(* detection for an event, detect_llm_anomaly is never called for it.      *)
C1_CriticalSkipsLLM ==
    \A h \in Handlers :
        (\E i \in 1..Len(all_detections[h]) : FastCritical(h, i))
            => ~InSeq(LLM, invoked[h])

(* a CRITICAL detection by the first fast stage of a pipeline that lists   *)
(* detect_llm_anomaly first, answered without the LLM stage                *)
C1_Witness ==
    \E h \in Handlers :
        /\ hpc[h] = "done"
        /\ pipeline[1] = LLM
        /\ FastCritical(h, 1)
        /\ ~InSeq(LLM, invoked[h])

(* C2: once a stage produced a CRITICAL detection no later stage runs: the *)
(* stages invoked are the fast stages, in list order, up to and including  *)
(* the first one that returned CRITICAL.                                   *)
C2_StopsAtFirstCritical ==
    \A h \in Handlers :
        \A i \in 1..Len(all_detections[h]) :
            FastCritical(h, i) =>
                invoked[h] = SubSeq(FastOrder, 1,
                    PositionIn(all_detections[h][i].stage, FastOrder))

(* the first stage returned CRITICAL and the second one never ran *)
C2_Witness ==
    \E h \in Handlers :
        /\ hpc[h] = "done"
        /\ FastCritical(h, 1)
        /\ invoked[h] = <<FastOrder[1]>>
        /\ Len(FastOrder) > 1

LLMUnavailable(h) == llm_call[h] \in {"failed", "probe_failed", "skipped"}
ByLLM(d) == d.stage = LLM

C14_Kept ==
    \A h \in Handlers :
        LLMUnavailable(h) =>
            /\ hpc[h] \in {"process", "done"}
            /\ SelectSeq(all_detections[h], ByLLM) = <<>>
            /\ hpc[h] = "done" =>
                  /\ response[h] \in {200, 403}
                  /\ response[h] = 200 \/ all_detections[h] # <<>>
C14_Step ==
    \A h \in Handlers :
        /\ ~LLMUnavailable(h) /\ llm_call'[h] \in
                {"failed", "probe_failed", "skipped"}
              => /\ all_detections'[h] = all_detections[h]
                 /\ hpc'[h] = "process"
        /\ LLMUnavailable(h) /\ hpc'[h] # "idle"
              => all_detections'[h] = all_detections[h]

(* C14: when detect_llm_anomaly fails or the breaker is OPEN, the event is *)
(* still answered, the expensive stage contributes no detection and the    *)
(* detections of the other stages are kept.                                *)
C14_LLMFailureDoesNotAbort ==
    /\ [](C14_Kept)
    /\ [][C14_Step]_vars
    /\ \A h \in Handlers : LLMUnavailable(h) ~> hpc[h] = "done"

(* the breaker was OPEN, the call was skipped and the event is answered    *)
(* with the detections of both other stages                                *)
C14_Witness ==
    \E h \in Handlers :
        /\ hpc[h] = "done"
        /\ llm_call[h] = "skipped"
        /\ llm_circuit_state.is_open
        /\ Len(all_detections[h]) = NumFast
        /\ response[h] \in {200, 403}

PipelineOver(h) == hpc[h] \in {"llm", "process", "done"}

C15_NoDetection ==
    \A h \in Handlers :
        /\ \A k \in 1..Len(all_detections[h]) :
              all_detections[h][k].stage \notin raised[h]
        /\ PipelineOver(h) /\ ~critical_found[h] =>
              /\ SelectSeq(invoked[h], IsFast) = FastOrder
              /\ InSeq(LLM, invoked[h])
C15_Step ==
    \A h \in Handlers :
        raised'[h] # raised[h] /\ hpc[h] = "loop" =>
            /\ hpc'[h] = "loop"
            /\ idx'[h] = idx[h] + 1
            /\ all_detections'[h] = all_detections[h]
            /\ critical_found'[h] = critical_found[h]

(* C15: a detector stage that raises contributes no detection, and the     *)
(* loop goes on to the next stage as it does after a stage that returned   *)
(* nothing: every later stage still runs.                                  *)
C15_StageErrorIsNoDetection == [](C15_NoDetection) /\ [][C15_Step]_vars

(* the first stage raised; the second one detected and the expensive one   *)
(* was called                                                              *)
C15_Witness ==
    \E h \in Handlers :
        /\ hpc[h] = "done"
        /\ raised[h] = {FastOrder[1]}
        /\ Len(all_detections[h]) >= 1
        /\ all_detections[h][1].stage = FastOrder[2]
        /\ InSeq(LLM, invoked[h])

IsPrefix(a, b) == Len(a) <= Len(b) /\ a = SubSeq(b, 1, Len(a))

C16_Order ==
    \A h \in Handlers :
        LET fast == SelectSeq(invoked[h], IsFast) IN
        /\ IsPrefix(fast, FastOrder)
        /\ invoked[h] \in {fast, Append(fast, LLM)}
        /\ InSeq(LLM, invoked[h]) => fast = FastOrder
        /\ hpc[h] = "llm" => invoked[h] = Append(FastOrder, LLM)
C16_Step ==
    \A h \in Handlers :
        \/ invoked'[h] = invoked[h]
        \/ invoked'[h] = <<>>
        \/ /\ hpc[h] # "llm"
           /\ \E st \in FastStages \cup {LLM} :
                 invoked'[h] = Append(invoked[h], st)

(* C16: the stages of one event are invoked one at a time, in list order,  *)
(* and detect_llm_anomaly only after every other stage has finished,       *)
(* wherever it stands in the list.                                         *)
C16_StagesInOrder == [](C16_Order) /\ [][C16_Step]_vars

(* detect_llm_anomaly is first in the list and in flight after the others *)
C16_Witness ==
    \E h \in Handlers :
        /\ pipeline[1] = LLM
        /\ hpc[h] = "llm"
        /\ invoked[h] = Append(FastOrder, LLM)
        /\ Len(FastOrder) = NumFast

----------------------------------------------------------------------------
(* Properties of the circuit breaker                                       *)

CoolingDown ==
    /\ llm_circuit_state.is_open
    /\ now - llm_circuit_state.last_failure_time < LLM_COOLDOWN
CooledDown ==
    /\ llm_circuit_state.is_open
    /\ now - llm_circuit_state.last_failure_time >= LLM_COOLDOWN
LeavesGate(h) == hpc[h] = "after_loop" /\ hpc'[h] # "after_loop"

C3_OpenAtThreshold ==
    llm_circuit_state.failure_count >= LLM_FAILURE_THRESHOLD
        => llm_circuit_state.is_open /\ llm_status(llm_circuit_state) = "OPEN"
C3_SkipStep ==
    /\ \A h \in Handlers :
         LeavesGate(h) /\ CoolingDown =>
            /\ hpc'[h] = "process"
            /\ llm_call'[h] \in {"none", "skipped"}
            /\ all_detections'[h] = all_detections[h]
            /\ llm_circuit_state' = llm_circuit_state
    /\ CoolingDown => ~(peer_pc = "idle" /\ peer_pc' = "llm")

(* C3: once failure_count reaches the threshold the breaker reports OPEN,  *)
(* and every call of the guarded stage made before the cool-down elapsed   *)
(* is skipped: the stage is not invoked and the call gives no detection.   *)
C3_OpenBreakerSkips == [](C3_OpenAtThreshold) /\ [][C3_SkipStep]_vars

(* a call was skipped by the breaker that the threshold opened *)
C3_Witness ==
    \E h \in Handlers :
        /\ llm_call[h] = "skipped"
        /\ hpc[h] = "process"
        /\ CoolingDown
        /\ llm_circuit_state.failure_count >= LLM_FAILURE_THRESHOLD

(* the breaker refuses every call made before a full cool-down is over *)
CoolsDownAnew(cs) ==
    /\ cs.is_open
    /\ cs.last_failure_time = now
    /\ \A t \in now..(now + LLM_COOLDOWN - 1) : ~BreakerAllows(cs, t)

C4_ProbeStep ==
    /\ \A h \in Handlers :
         /\ LeavesGate(h) /\ ~critical_found[h] /\ CooledDown
              => hpc'[h] = "llm" /\ llm_call'[h] = "probing"
         /\ llm_call[h] = "probing" /\ llm_call'[h] = "probe_succeeded"
              => /\ ~llm_circuit_state'.is_open
                 /\ llm_circuit_state'.failure_count = 0
         /\ llm_call[h] = "probing" /\ llm_call'[h] = "probe_failed"
              => CoolsDownAnew(llm_circuit_state')
    /\ peer_pc = "llm" /\ peer_pc' = "idle" /\ peer_probe
         => \/ /\ ~llm_circuit_state'.is_open
               /\ llm_circuit_state'.failure_count = 0
            \/ CoolsDownAnew(llm_circuit_state')

(* C4: when the breaker is OPEN and the cool-down has elapsed the next     *)
(* call is attempted; its success closes the breaker with failure_count 0; *)
(* its failure leaves the breaker OPEN and restarts the cool-down, so that *)
(* no call is attempted before a full new cool-down has elapsed.           *)
C4_HalfOpenProbe == [][C4_ProbeStep]_vars

C17_Step ==
    \A h \in Handlers :
        /\ llm_call[h] \in {"calling", "probing"}
        /\ llm_call'[h] \in {"succeeded", "probe_succeeded"}
        => /\ llm_circuit_state'.failure_count = 0
           /\ ~llm_circuit_state'.is_open
           /\ llm_status(llm_circuit_state') = "ACTIVE"

(* C17: after every successful call of the guarded stage failure_count is  *)
(* 0 and the breaker is CLOSED, whatever they were before the call.        *)
C17_SuccessResetsCount == [][C17_Step]_vars

(* a call that was let through the CLOSED breaker succeeded after a        *)
(* failure of this same instant had been counted                           *)
C17_Witness ==
    \E h \in Handlers :
        /\ llm_call[h] = "succeeded"
        /\ hpc[h] = "process"
        /\ llm_circuit_state.failure_count = 0
        /\ ~llm_circuit_state.is_open
        /\ llm_circuit_state.last_error = "error"
        /\ llm_circuit_state.last_failure_time = now
        /\ now > 0

----------------------------------------------------------------------------
(* Properties of the rate limiter                                          *)

Processes(h) == hpc[h] = "process" /\ hpc'[h] = "done"
HighRiskScore(rs) == rs.severity = "CRITICAL" \/ rs.score >= HIGH_RISK_SCORE

C5_BlockStep ==
    /\ \A h \in Handlers :
         Processes(h) /\ HighRiskScore(risk_score'[h]) =>
            /\ ip[h] \in DOMAIN rate_limited_ips'
            /\ rate_limited_ips'[ip[h]] = now + RATE_LIMIT_DURATION
            /\ \A t \in now..(now + RATE_LIMIT_DURATION - 1) :
                  rate_limited_ips'[ip[h]] > t
    /\ \A i \in DOMAIN rate_limited_ips :
         /\ i \in DOMAIN rate_limited_ips'
         /\ rate_limited_ips'[i] >= rate_limited_ips[i]

(* C5: processing an event whose RiskScore is CRITICAL or scores >= 0.8    *)
(* leaves, for its source IP, the expiry now + RATE_LIMIT_DURATION, and    *)
(* the IP stays blocked at every time before that expiry.                  *)
C5_HighRiskBlocks == [][C5_BlockStep]_vars

(* a score of 0.8 without a CRITICAL label has just blocked the source *)
C5_Witness ==
    \E h \in Handlers :
        /\ hpc[h] = "done"
        /\ risk_score[h].severity # "CRITICAL"
        /\ risk_score[h].score >= HIGH_RISK_SCORE
        /\ now > 0
        /\ ip[h] \in DOMAIN rate_limited_ips
        /\ rate_limited_ips[ip[h]] = now + RATE_LIMIT_DURATION

C6_ResponseStep ==
    \A h \in Handlers :
        Processes(h) =>
            /\ response'[h] = 403 <=> HighRiskScore(risk_score'[h])
            /\ response'[h] = 403 =>
                  rate_limited_ips' =
                      [j \in DOMAIN rate_limited_ips \cup {ip[h]} |->
                          IF j = ip[h] THEN now + RATE_LIMIT_DURATION
                          ELSE rate_limited_ips[j]]
            /\ response'[h] # 403 =>
                  /\ response'[h] = 200
                  /\ rate_limited_ips' = rate_limited_ips

(* C6: handle_event answers 403 exactly when the event's own RiskScore is  *)
(* CRITICAL or scores >= 0.8, which is when it writes the source IP's      *)
(* entry; every other event is answered 200 and leaves the table as it     *)
(* was, whatever it holds for that IP.                                     *)
C6_Status403IffHighRisk == [][C6_ResponseStep]_vars

(* a threat below the threshold from a blocked IP is answered 200 *)
C6_Witness ==
    \E h \in Handlers :
        /\ hpc[h] = "done"
        /\ response[h] = 200
        /\ all_detections[h] # <<>>
        /\ ip[h] \in DOMAIN rate_limited_ips
        /\ rate_limited_ips[ip[h]] > now

C18_Step ==
    /\ \A h \in Handlers :
         (/\ hpc[h] = "process" /\ hpc'[h] = "done"
          /\ (risk_score'[h].severity = "CRITICAL"
                 \/ risk_score'[h].score >= HIGH_RISK_SCORE))
         => rate_limited_ips'[ip[h]] = now + RATE_LIMIT_DURATION
    /\ \A i \in DOMAIN rate_limited_ips' :
         i \notin DOMAIN rate_limited_ips
            \/ rate_limited_ips'[i] # rate_limited_ips[i]
         => /\ rate_limited_ips'[i] = now + RATE_LIMIT_DURATION
            /\ error_event_timestamps' # <<>>
            /\ error_event_timestamps'[Len(error_event_timestamps')] = now

(* C18: a high-risk event sets its source's expiry to the time of the      *)
(* event + RATE_LIMIT_DURATION whatever the table held, a later expiry     *)
(* included; the entry only changes by such a write, so it is always the   *)
(* last writer's.                                                          *)
C18_LastWriterWins == [][C18_Step]_vars

(* at time 0 a high-risk event has replaced the later expiry the table     *)
(* held for its source                                                     *)
C18_Witness ==
    \E h \in Handlers :
        /\ hpc[h] = "done"
        /\ response[h] = 403
        /\ now = 0
        /\ rate_limited_ips[ip[h]] = RATE_LIMIT_DURATION

ActiveNow == {i \in DOMAIN rate_limited_ips : now < rate_limited_ips[i]}

C19_Step ==
    /\ DOMAIN rate_limited_ips \subseteq DOMAIN rate_limited_ips'
    /\ active_rate_limits' # active_rate_limits =>
          /\ rate_limited_ips' = rate_limited_ips
          /\ active_rate_limits' = Cardinality(ActiveNow)

(* C19: no step removes a key from the rate-limit table; counting the      *)
(* blocked IPs is a pure read that counts an IP exactly when it has an     *)
(* entry with now < expiry, so an expired entry stays and is not counted.  *)
C19_LazyExpiry == [][C19_Step]_vars

(* of two entries one has expired: it is still there and one is counted *)
C19_Witness ==
    /\ active_rate_limits = 1
    /\ Cardinality(ActiveNow) = 1
    /\ Cardinality(DOMAIN rate_limited_ips) = 2
    /\ \E i \in DOMAIN rate_limited_ips : rate_limited_ips[i] < now

----------------------------------------------------------------------------
(* Properties of the broadcast fan-out                                     *)

Finishes(b) == bpc[b] = "sending" /\ bpc'[b] \in {"returned", "raised"}

C7_Step ==
    \A b \in Broadcasts :
        (/\ Finishes(b)
         /\ ~bdirty[b]
         /\ Cardinality(disconnected'[b]) < Cardinality(bstart[b]))
        => /\ bpc'[b] = "returned"
           /\ active_connections' = bstart[b] \ disconnected'[b]

(* C7: a broadcast to N observers of which M < N fail delivery, with no    *)
(* connect or disconnect during it, returns normally and leaves exactly    *)
(* the N - M observers whose delivery succeeded.                           *)
C7_BroadcastKeepsSucceeded == [][C7_Step]_vars

C8_Step ==
    \A b \in Broadcasts :
        Finishes(b) =>
            /\ bpc'[b] = "returned"
            /\ bstart[b] \subseteq it_seen[b]
            /\ active_connections' = active_connections \ disconnected'[b]

(* C8: broadcast attempts delivery to every observer registered when it    *)
(* starts; a delivery failure keeps no other observer from its attempt,    *)
(* removes only the failing observer and is never raised to the caller.    *)
C8_DeliveryIsIndependent == [][C8_Step]_vars

(* C9: whatever connect, disconnect or another broadcast's removal of      *)
(* failed observers interleaves with it, broadcast never raises.           *)
C9_BroadcastNeverRaises == \A b \in Broadcasts : bpc[b] # "raised"

C10_NothingSent ==
    \A b \in Broadcasts :
        ~bmsg_ok[b] =>
            /\ bpc[b] = "returned"
            /\ it_seen[b] = {}
            /\ connection[b] = NoConn
C10_Step ==
    \A b \in Broadcasts :
        bpc[b] = "idle" /\ bpc'[b] # "idle" /\ ~bmsg_ok'[b] =>
            /\ bpc'[b] = "returned"
            /\ active_connections' = active_connections

(* C10: if serializing the message fails, broadcast sends to no observer,  *)
(* leaves the observer set as it was and returns without raising.          *)
C10_SerializationFailureAborts == [](C10_NothingSent) /\ [][C10_Step]_vars

(* a message that cannot be serialized, broadcast to a non-empty set *)
C10_Witness ==
    \E b \in Broadcasts :
        /\ ~bmsg_ok[b]
        /\ bpc[b] = "returned"
        /\ bstart[b] # {}
        /\ active_connections = bstart[b]

----------------------------------------------------------------------------
(* Properties of the sliding windows                                       *)

Pruning == mpc = "sleeping" /\ mpc' = "broadcasting"

C11_Bounded ==
    /\ Len(request_timestamps) <= MaxTimestamps
    /\ Len(error_event_timestamps) <= MaxTimestamps
C11_PruneStep ==
    Pruning =>
        /\ \A k \in 1..Len(request_timestamps') :
              request_timestamps'[k] >= now - TIME_WINDOW_SECONDS
        /\ \A k \in 1..Len(error_event_timestamps') :
              error_event_timestamps'[k] >= now - TIME_WINDOW_SECONDS

(* C11: neither timestamp sequence is ever longer than the maximum, and    *)
(* right after a periodic prune neither holds an entry older than          *)
(* now - TIME_WINDOW_SECONDS.                                               *)
C11_WindowsBoundedAndPruned == [](C11_Bounded) /\ [][C11_PruneStep]_vars

(* a prune has just run late enough for entries to be too old, and left    *)
(* a full error-event sequence of entries inside the window                *)
C11_Witness ==
    /\ mpc = "broadcasting"
    /\ now > TIME_WINDOW_SECONDS
    /\ Len(error_event_timestamps) = MaxTimestamps
    /\ metrics.error_events_per_minute = MaxTimestamps
    /\ error_event_timestamps[1] = now - TIME_WINDOW_SECONDS
    /\ Len(request_timestamps) = 1

IsSuffix(a, b) ==
    \E k \in 0..Len(b) : a = SubSeq(b, k + 1, Len(b))
C20_Sorted(dq) ==
    \A j, k \in 1..Len(dq) : j < k => dq[j] <= dq[k]
C20_BackAndFront(dq, dq2) ==
    \/ IsSuffix(dq2, dq)
    \/ /\ dq2 # <<>>
       /\ dq2[Len(dq2)] = now
       /\ IsSuffix(SubSeq(dq2, 1, Len(dq2) - 1), dq)

(* C20: each timestamp sequence is sorted ascending in every reachable     *)
(* state: a step only removes entries from its front or appends the        *)
(* current time at its back.                                               *)
C20_WindowsSorted ==
    /\ [](C20_Sorted(request_timestamps) /\ C20_Sorted(error_event_timestamps))
    /\ [][/\ C20_BackAndFront(request_timestamps, request_timestamps')
          /\ C20_BackAndFront(error_event_timestamps,
                              error_event_timestamps')]_vars

(* events of two different times are in the sequence after an eviction     *)
(* at the maximum length and a prune                                       *)
C20_Witness ==
    /\ Len(error_event_timestamps) = MaxTimestamps
    /\ error_event_timestamps[1] < error_event_timestamps[MaxTimestamps]
    /\ error_event_timestamps[1] > 0
    /\ mpc = "broadcasting"

----------------------------------------------------------------------------
(* Properties of the monitor registry                                      *)

LiveTasksOf(t) == {k \in 1..Len(tasks) : tasks[k].target = t /\ Live(k)}
Adds(a) == apc[a] = "idle" /\ apc'[a] = "done"
Removes(r) == rpc[r] = "idle" /\ rpc'[r] # "idle"

C12_AtMostOne ==
    \A t \in Targets : Cardinality(LiveTasksOf(t)) <= 1
C12_StartStep ==
    \A a \in Adders :
        Adds(a) /\ add_url'[a] \in DOMAIN active_monitoring_tasks =>
            /\ add_response'[a] = "already_monitoring"
            /\ tasks' = tasks
            /\ active_monitoring_tasks' = active_monitoring_tasks
            /\ monitored_websites' = monitored_websites

(* C12: at most one live monitor task exists per target; a start for a     *)
(* target that is already registered answers "already monitoring" and      *)
(* creates no second task.                                                 *)
C12_OneTaskPerTarget == [](C12_AtMostOne) /\ [][C12_StartStep]_vars

C13_Step ==
    \A r \in Removers :
        Removes(r) /\ decoded_url'[r] \notin DOMAIN monitored_websites =>
            /\ remove_response'[r] = 404
            /\ rpc'[r] = "done"
            /\ monitored_websites' = monitored_websites
            /\ active_monitoring_tasks' = active_monitoring_tasks
            /\ website_health_history' = website_health_history
            /\ tasks' = tasks

(* C13: a stop for a target that is not registered is answered 404 and     *)
(* leaves the registry, the task table and the health histories as they    *)
(* were.                                                                   *)
C13_StopUnregisteredIs404 == [][C13_Step]_vars

(* a stop of a target that was registered and stopped before, while        *)
(* another target is monitored, answered 404                               *)
C13_Witness ==
    \E r \in Removers :
        /\ rpc[r] = "done"
        /\ remove_response[r] = 404
        /\ \E k \in 1..Len(tasks) :
              tasks[k].target = decoded_url[r] /\ tasks[k].st = "done"
        /\ DOMAIN monitored_websites # {}
        /\ DOMAIN website_health_history # {}

(* the stop call r returns its result *)
StopReturns(r) == rpc[r] = "awaiting" /\ rpc'[r] = "done"

(* the stop raised before it did anything: the call is answered 500 *)
StopRaised(r) == remove_response'[r] = 500

C22_CancelStep ==
    \A r \in Removers :
        Removes(r) /\ decoded_url'[r] \in DOMAIN monitored_websites
                   /\ ~StopRaised(r) =>
            /\ rpc'[r] = "awaiting"
            /\ awaited'[r] = active_monitoring_tasks[decoded_url'[r]]
            /\ tasks'[awaited'[r]].st # "running"
            /\ monitored_websites' = monitored_websites
            /\ active_monitoring_tasks' = active_monitoring_tasks
C22_Waiting ==
    \A r \in Removers :
        rpc[r] = "awaiting" /\ awaited[r] # NoTask /\ Live(awaited[r]) =>
            /\ decoded_url[r] \in DOMAIN monitored_websites
            /\ decoded_url[r] \in DOMAIN active_monitoring_tasks
C22_ReturnStep ==
    \A r \in Removers :
        StopReturns(r) =>
            /\ remove_response'[r] = 200
            /\ \A k \in 1..Len(tasks') :
                  tasks'[k].target = decoded_url[r] =>
                      tasks'[k].st = "done"
            /\ decoded_url[r] \notin DOMAIN monitored_websites'
            /\ decoded_url[r] \notin DOMAIN active_monitoring_tasks'

(* C22: a stop of a registered target cancels the target's task, waits     *)
(* until that task has ended and only then deregisters: while the task is  *)
(* live the target stays registered, and when the stop returns no task of  *)
(* the target is running and the target is in neither the monitor registry *)
(* nor the task table. (A stop that raises does not return: its call is    *)
(* answered 500, lines 234-237.)                                           *)
C22_StopAwaitsThenDeregisters ==
    [](C22_Waiting) /\ [][C22_CancelStep /\ C22_ReturnStep]_vars

----------------------------------------------------------------------------
(* Properties of the metrics loop                                          *)

(* the loop stands at line 120, inside manager.broadcast(metrics) *)
InBroadcast == mpc = "broadcasting"

(* C21: the metrics task never blocks on broadcast delivery: while it is   *)
(* in its broadcast, the loop can go on to its next cycle whether or not   *)
(* the delivery to an observer completes.                                  *)
C21_MetricsNeverBlocks == InBroadcast => ENABLED MetricsResume

ShuttingDown == lpc # "serving"
RunningTasks == {k \in 1..Len(tasks) : Live(k)}

(* once cancelled, the loop runs no further cycle and sends nothing more *)
C23_CancelStep ==
    must_cancel =>
        /\ ~(mpc' = "broadcasting" /\ mpc # "broadcasting")
        /\ connection'[MetricsCall] \in {connection[MetricsCall], NoConn}
        /\ must_cancel' \/ MetricsOver'
C23_Closed ==
    lpc = "closed" => MetricsOver /\ ~must_cancel /\ RunningTasks = {}

(* C23: a shutdown that has begun completes; the metrics loop ends where   *)
(* it is suspended when it is cancelled, without another cycle or send,    *)
(* and when the shutdown is complete the metrics task has ended and no     *)
(* monitor task is running, whether the monitor tasks were running, had    *)
(* returned or had failed when stop_all_monitoring was called.             *)
C23_ShutdownTerminates ==
    /\ ShuttingDown ~> (lpc = "closed")
    /\ [](C23_Closed)
    /\ [][C23_CancelStep]_vars

(* the shutdown is complete with an observer connected, the loop of the    *)
(* metrics task broken, one monitor task cancelled by stop_all_monitoring  *)
(* and one that had failed before                                          *)
C23_Witness ==
    /\ lpc = "closed"
    /\ mpc = "ended"
    /\ active_connections # {}
    /\ \E k, j \in 1..Len(tasks) :
          /\ tasks[k].st = "failed"
          /\ tasks[j].st = "done"
          /\ k \in Registered
          /\ j \in Registered

----------------------------------------------------------------------------
(* Properties of add_monitor_endpoint                                      *)

Starts(a) == Adds(a) /\ add_response'[a] = "monitoring_started"

C24_AtLeastMinimum ==
    \A t \in DOMAIN monitored_websites :
        monitored_websites[t] >= MIN_CHECK_INTERVAL
C24_ClampStep ==
    \A a \in Adders :
        Starts(a) =>
            /\ add_url'[a] \in DOMAIN monitored_websites'
            /\ (check_interval'[a] < 30 =>
                    monitored_websites'[add_url'[a]] = 30)
            /\ (check_interval'[a] >= 30 =>
                    monitored_websites'[add_url'[a]] = check_interval'[a])

(* C24: every registered monitor has a check interval of at least 30      *)
(* seconds: a start with a requested interval below 30 registers 30, and   *)
(* one with an interval of 30 or more registers the interval requested.    *)
C24_IntervalClamped == [](C24_AtLeastMinimum) /\ [][C24_ClampStep]_vars

(* one monitor registered at 30 from a request of 10 seconds, while        *)
(* another is registered at the 60 seconds requested for it                *)
C24_Witness ==
    \E a \in Adders, t \in DOMAIN monitored_websites :
        /\ apc[a] = "done"
        /\ add_response[a] = "monitoring_started"
        /\ check_interval[a] = 10
        /\ monitored_websites[add_url[a]] = 30
        /\ monitored_websites[t] = 60

(* the URL of the request, a scheme-less one with the default scheme put   *)
(* before it, has a scheme other than http and https, or an empty host     *)
(* part: nothing where the host name stands in the netloc                  *)
NoHost(parsed_url) ==
    \/ parsed_url.scheme \notin {HTTP, HTTPS}
    \/ hostinfo(parsed_url.netloc).hostname = <<>>
Malformed(url) == NoHost(urlparse(WithScheme(url)))

(* the answers of a start that are errors: the 400 of line 208, a          *)
(* ValueError of lines 192-204, the 500 of line 217                        *)
Rejections == {"400", "ValueError", "500"}

C25_Step ==
    \A a \in Adders :
        Adds(a) /\ Malformed(add_url'[a]) =>
            /\ add_response'[a] \in Rejections
            /\ monitored_websites' = monitored_websites
            /\ active_monitoring_tasks' = active_monitoring_tasks
            /\ website_health_history' = website_health_history
            /\ tasks' = tasks
C25_NoneRegistered ==
    \A t \in DOMAIN monitored_websites \cup DOMAIN active_monitoring_tasks
              \cup DOMAIN website_health_history : ~Malformed(t)

(* C25: a start with an invalid URL (after the default scheme is given to  *)
(* a URL without one, a scheme other than http and https, or an empty      *)
(* host part) ends with an error in the call itself and creates no         *)
(* monitor, no task and no health history.                                 *)
C25_InvalidURLRejected == [](C25_NoneRegistered) /\ [][C25_Step]_vars

----------------------------------------------------------------------------
(* Properties of the incident report                                       *)

Weight(d) == SEVERITY_WEIGHTS(d.severity)
Scores(h) == risk_score'[h] # risk_score[h] /\ risk_score'[h] # NoRisk
Reports(h) == initial_report[h] = NoReport /\ initial_report'[h] # NoReport

C26_Step ==
    \A h \in Handlers :
        Reports(h) =>
            LET dets == all_detections[h]
                p == initial_report'[h].attack
            IN \E k \in 1..Len(dets) :
                  /\ dets[k] = p
                  /\ \A j \in 1..Len(dets) : Weight(dets[j]) <= Weight(p)
                  /\ \A j \in 1..(k - 1) : Weight(dets[j]) < Weight(p)

(* C26: the primary attack of an incident report is one of the detections *)
(* collected, none of them has a greater severity weight, and every        *)
(* detection collected before it has a smaller one.                        *)
C26_PrimaryIsFirstMaximum == [][C26_Step]_vars

(* a report on three detections, two of them of the greatest weight: the   *)
(* primary attack is the second detection and not the third                *)
C26_Witness ==
    \E h \in Handlers :
        /\ hpc[h] = "done"
        /\ Len(all_detections[h]) = 3
        /\ initial_report[h].attack = all_detections[h][2]
        /\ Weight(all_detections[h][1]) < Weight(all_detections[h][2])
        /\ Weight(all_detections[h][3]) = Weight(all_detections[h][2])

C27_Step ==
    \A h \in Handlers : Scores(h) => all_detections[h] # <<>>
C27_Scored ==
    \A h \in Handlers : risk_score[h] # NoRisk => all_detections[h] # <<>>

(* C27: a risk score is computed only for an event of which at least one   *)
(* detection was collected: no step scores an empty list, and no request   *)
(* holds a risk score without a detection.                                 *)
C27_NoScoreWithoutDetection == [](C27_Scored) /\ [][C27_Step]_vars

(* a request scored on the one detection its pipeline run collected, after *)
(* a stage that raised and with an LLM call that failed                    *)
C27_Witness ==
    \E h \in Handlers :
        /\ hpc[h] = "done"
        /\ risk_score[h] # NoRisk
        /\ Len(all_detections[h]) = 1
        /\ raised[h] # {}
        /\ llm_call[h] = "failed"

----------------------------------------------------------------------------
(* Properties of the attack log                                            *)

MalformedLog == attack_log.kind \in {"invalid", "undecodable", "not_list"}
EmptyAnswer == Answer(200, "list", 0)

C29_ReadStep ==
    MalformedLog /\ sink = "ok" =>
        /\ log_answer' \in {log_answer, EmptyAnswer}
        /\ logs_answer' \in {logs_answer, EmptyAnswer}
C29_PersistStep ==
    \A h \in Handlers :
        Processes(h) /\ MalformedLog /\ sink = "ok"
                /\ all_detections[h] # <<>> =>
            /\ attack_log' = File("list", 1)
            /\ response'[h] \in {200, 403}

(* C29: a persisted log that is not a JSON list is never fatal: the two    *)
(* readers of the log answer as for an empty log, and the persist          *)
(* operation leaves a list that holds the new entry only.                  *)
C29_MalformedLogIsEmpty == [][C29_ReadStep /\ C29_PersistStep]_vars

(* the log sink fails in the step of h *)
SinkFailure(h) ==
    Processes(h) /\ all_detections[h] # <<>> /\ SinkFails(attack_log, sink)

C30_Step ==
    \A h \in Handlers :
        SinkFailure(h) =>
            /\ response'[h] \in {200, 403}
            /\ response'[h] = 403 <=> HighRiskScore(risk_score'[h])
            /\ attack_history' = (IF attack_history >= MaxHistory
                                  THEN MaxHistory ELSE attack_history + 1)
            /\ background_tasks'[h] = BackgroundTasks
            /\ (HighRiskScore(risk_score'[h]) =>
                    /\ ip[h] \in DOMAIN rate_limited_ips'
                    /\ rate_limited_ips'[ip[h]] = now + RATE_LIMIT_DURATION)
            /\ (~HighRiskScore(risk_score'[h]) =>
                    rate_limited_ips' = rate_limited_ips)

(* C30: a failure of the log sink while an incident report is persisted is *)
(* absorbed: the event is answered 403 or 200 by its risk score alone, the *)
(* report is appended to the history, the background tasks are scheduled   *)
(* and the rate limit is recorded for a high-risk score, as without the    *)
(* failure.                                                                *)
C30_SinkFailureAbsorbed == [][C30_Step]_vars

(* a high-risk event answered 403 and the first of the history, whose      *)
(* report was not persisted: the write failed and left a truncated file    *)
C30_Witness ==
    \E h \in Handlers :
        /\ hpc[h] = "done"
        /\ logged[h] = "failed"
        /\ response[h] = 403
        /\ attack_log = EmptyFile
        /\ ip[h] \in DOMAIN rate_limited_ips
        /\ background_tasks[h] = BackgroundTasks
        /\ attack_history = 1

----------------------------------------------------------------------------
(* Properties of the incident broadcasts                                   *)

Settles(h) == hpc[h] = "background" /\ hpc'[h] = "idle"
RealSource(i) == i \notin {"", NoIP, WEBSITE_MONITOR}
SameIncident(m, n) == m.ip = n.ip /\ m.timestamp = n.timestamp

C28_BothStep ==
    \A h \in Handlers :
        Settles(h) /\ RealSource(ip[h]) =>
            /\ Len(published[h]) = 2
            /\ ~published[h][1].update
            /\ published[h][2].update
            /\ SameIncident(published[h][1], published[h][2])
C28_InitialFirst ==
    \A h \in Handlers : \A k \in 1..Len(published[h]) :
        published[h][k].update =>
            /\ k = 2
            /\ ~published[h][1].update
            /\ SameIncident(published[h][1], published[h][k])

(* C28: for every detected threat from a real source IP the background    *)
(* tasks broadcast two messages, the initial report and then the update    *)
(* marked update=true with the ip and timestamp of the initial report; no  *)
(* update is broadcast before the initial report of its incident.          *)
C28_InitialThenUpdate == [](C28_InitialFirst) /\ [][C28_BothStep]_vars

----------------------------------------------------------------------------
(* Properties of connect and disconnect                                    *)

EndpointDisconnects(w) == ws_state[w] = "open" /\ ws_state'[w] = "closed"
Unregistered(w) == ws_state[w] = "open" /\ w \notin active_connections
C31_DisconnectStep ==
    \A w \in Observers :
        EndpointDisconnects(w) /\ w \notin active_connections =>
            active_connections' = active_connections
C31_Repeated ==
    /\ repeated.disconnect.called =>
          ~repeated.disconnect.changed /\ repeated.disconnect.raised = "none"
    /\ repeated.connect.called => ~repeated.connect.changed

(* C31: disconnecting an observer that is not registered raises nothing   *)
(* and leaves the observer set as it is, and connecting an observer that   *)
(* is registered leaves the set as it is.                                  *)
C31_ConnectDisconnectIdempotent ==
    [](C31_Repeated) /\ [][C31_DisconnectStep]_vars

(* connect was called for a registered observer and disconnect for an      *)
(* unregistered one, an observer that a broadcast had removed after a      *)
(* failed send is still to be disconnected by its endpoint, and another    *)
(* observer is registered                                                  *)
C31_Witness ==
    /\ repeated.connect.called
    /\ repeated.disconnect.called
    /\ \E w \in Observers : Unregistered(w)
    /\ active_connections # {}

----------------------------------------------------------------------------
(* Properties of the published breaker status                              *)

SnapshotTaken == mpc = "sleeping" /\ mpc' = "broadcasting"
Projects(cs, status) ==
    /\ cs.is_open => status = "OPEN"
    /\ ~cs.is_open /\ cs.failure_count > 0 => status = "DEGRADED"
    /\ ~cs.is_open /\ cs.failure_count = 0 => status = "ACTIVE"
BreakerTransition ==
    \/ \E h \in Handlers :
          llm_call[h] \in {"calling", "probing"} /\ llm_call'[h] # llm_call[h]
    \/ peer_pc # peer_pc'
C32_SnapshotStep ==
    SnapshotTaken =>
        /\ Projects(llm_circuit_state, metrics'.llm_status)
        /\ llm_circuit_state' = llm_circuit_state
C32_TransitionStep ==
    llm_circuit_state' # llm_circuit_state =>
        /\ BreakerTransition
        /\ metrics' = metrics
        /\ mpc' = mpc
C32_NoStatusField ==
    /\ DOMAIN llm_circuit_state
         = {"is_open", "last_failure_time", "failure_count", "last_error"}
    /\ llm_circuit_state.is_open \in BOOLEAN

(* C32: the status of a metrics snapshot is OPEN when the breaker is open, *)
(* DEGRADED when it is closed with a failure count above 0 and ACTIVE      *)
(* otherwise; taking the snapshot leaves the breaker state as it is, the   *)
(* breaker state changes only in the breaker's own transitions, and it is  *)
(* open or closed, never DEGRADED.                                         *)
C32_StatusIsProjection ==
    /\ [][C32_SnapshotStep]_vars
    /\ [][C32_TransitionStep]_vars
    /\ [](C32_NoStatusField)

(* a snapshot that shows DEGRADED for a closed breaker with failures *)
C32_Witness ==
    /\ mpc = "broadcasting"
    /\ metrics.llm_status = "DEGRADED"
    /\ ~llm_circuit_state.is_open
    /\ llm_circuit_state.failure_count > 0

----------------------------------------------------------------------------
(* Properties of an event without a detection                              *)

SharedRecords ==
    <<error_event_timestamps, attack_history, rate_limited_ips, attack_log>>
Processed(h) == hpc[h] = "process" /\ hpc'[h] # hpc[h]
C33_NoThreatStep ==
    \A h \in Handlers :
        Processed(h) /\ all_detections[h] = <<>> =>
            /\ hpc'[h] = "done"
            /\ response'[h] = 200
            /\ initial_report'[h] = NoReport
            /\ risk_score'[h] = NoRisk
            /\ logged'[h] = "none"
            /\ background_tasks'[h] = <<>>
            /\ SharedRecords' = SharedRecords
C33_FrameStep ==
    \/ SharedRecords' = SharedRecords
         /\ \A h \in Handlers :
               background_tasks'[h] # <<>> =>
                   background_tasks'[h] = background_tasks[h]
    \/ \E h \in Handlers : Processed(h) /\ all_detections[h] # <<>>

(* C33: an event whose stages produced no detection is answered 200 with  *)
(* the no-threat status, without a report, a score or a background task,   *)
(* and the error-event sequence, the attack history, the rate-limit table  *)
(* and the persisted log are changed only by the processing of an event    *)
(* that has a detection.                                                   *)
C33_NoThreatChangesNothing ==
    [][C33_NoThreatStep]_vars /\ [][C33_FrameStep]_vars

(* an event without a detection is answered after an earlier event left    *)
(* its records                                                             *)
C33_Witness ==
    \E h \in Handlers :
        /\ hpc[h] = "done"
        /\ all_detections[h] = <<>>
        /\ response[h] = 200
        /\ initial_report[h] = NoReport
        /\ attack_history > 0
        /\ error_event_timestamps # <<>>

----------------------------------------------------------------------------
(* Properties of the records of the events with a detection                *)

Least(a, b) == IF a < b THEN a ELSE b
RECURSIVE Since(_, _)
Since(events, t) ==
    IF t > MaxTime THEN 0
    ELSE (IF t < 0 THEN 0 ELSE events[t]) + Since(events, t + 1)
C34_AppendStep ==
    \A h \in Handlers :
        Processed(h) /\ all_detections[h] # <<>> =>
            LET before == error_event_timestamps
                after == error_event_timestamps'
            IN /\ Len(after) = Least(Len(before) + 1, MaxTimestamps)
               /\ after[Len(after)] = now
               /\ SubSeq(after, 1, Len(after) - 1) =
                     IF Len(before) < MaxTimestamps THEN before
                     ELSE Tail(before)
               /\ attack_history' = Least(attack_history + 1, MaxHistory)
C34_SnapshotStep ==
    SnapshotTaken =>
        metrics'.error_events_per_minute =
            Least(Since(threat_events, now - TIME_WINDOW_SECONDS),
                  MaxTimestamps)
C34_History ==
    attack_history = Least(Since(threat_events, 0), MaxHistory)

(* C34: every event with a detection appends one timestamp to the error-  *)
(* event sequence and one report to the attack history, which evicts its   *)
(* oldest entry when full, and the error count of a snapshot is the number *)
(* of events with a detection inside the window, capped at the length of   *)
(* the sequence.                                                           *)
C34_ErrorsCountThreatEvents ==
    /\ [][C34_AppendStep]_vars
    /\ [][C34_SnapshotStep]_vars
    /\ [](C34_History)

(* a snapshot that counts one event of the window after older ones left it *)
C34_Witness ==
    /\ mpc = "broadcasting"
    /\ metrics.error_events_per_minute = 1
    /\ Since(threat_events, 0) > MaxTimestamps
    /\ attack_history = MaxHistory

----------------------------------------------------------------------------
(* Properties of the order of the shutdown                                 *)

MonitorsStopped == lpc # "stop_all" /\ lpc' = "stop_all"
ClientCloses == ~ClientClosed /\ ClientClosed'
UsesClient(k) ==
    /\ k \in 1..Len(tasks)
    /\ tasks[k].target \in DOMAIN website_health_history'
    /\ tasks[k].target \in DOMAIN website_health_history =>
          website_health_history'[tasks[k].target]
             # website_health_history[tasks[k].target]
C35_OrderStep ==
    /\ (\E k \in 1..Len(tasks) :
           tasks[k].st = "running" /\ tasks'[k].st = "cancelling")
        /\ lpc # "serving" => MonitorsStopped
    /\ MonitorsStopped => lpc = "await_metrics" /\ MetricsOver /\ ~must_cancel
    /\ ClientCloses => lpc = "stop_all" /\ RunningTasks = {}
    /\ lpc # lpc' =>
          <<lpc, lpc'>> \in {<<"serving", "await_metrics">>,
                            <<"await_metrics", "stop_all">>,
                            <<"stop_all", "closed">>}
C35_NoUseStep ==
    \A k \in 1..MaxTasks :
        website_health_history' # website_health_history /\ UsesClient(k)
            => ~ClientClosed /\ ~ClientClosed'
C35_ClosedForGood ==
    ClientClosed => RunningTasks = {} /\ MetricsOver

----------------------------------------------------------------------------
(* Properties of the log written under log_lock                            *)

InSection(w) == persist[w].pc \in {"locked", "read", "leaving"}
Held == IF attack_log.kind = "list" THEN attack_log.entries ELSE 0
Writes(w) ==
    /\ persist[w].pc = "read"
    /\ persist'[w].pc = "leaving"
    /\ ~persist'[w].failed
C36_WriteStep ==
    \A w \in Writers :
        Writes(w) =>
            /\ attack_log'.kind = "list"
            /\ attack_log'.entries = Least(Held + 1, LogCap)
C36_ReleaseStep ==
    \A w \in Writers :
        InSection(w) /\ ~InSection(w)' =>
            /\ log_lock = w
            /\ log_lock' = Unlocked
C36_Locked ==
    /\ \A w \in Writers : InSection(w) <=> log_lock = w
    /\ \A v, w \in Writers : InSection(v) /\ InSection(w) => v = w
    /\ attack_log.kind = "list" => attack_log.entries = persisted

(* C36: calls of log_secure_attack_event from several threads are         *)
(* serialized by log_lock: each write without an I/O failure leaves the    *)
(* file with the entries it held and one more, so that the file holds as   *)
(* many entries as were written, and the lock is released when a call      *)
(* leaves the with block, also after a write that failed.                  *)
C36_NoLostUpdate ==
    /\ [][C36_WriteStep]_vars
    /\ [][C36_ReleaseStep]_vars
    /\ [](C36_Locked)

(* a second call holds the lock, after a call whose write failed left it,  *)
(* with the entries of two calls in the file                               *)
C36_Witness ==
    /\ attack_log = File("list", 2)
    /\ persisted = 2
    /\ sink = "ok"
    /\ \E v, w \in Writers :
          /\ persist[v].pc = "leaving" /\ persist[v].failed
          /\ log_lock = v
          /\ persist[w].pc = "idle"

----------------------------------------------------------------------------
(* Properties of the simulation task                                       *)

RECURSIVE TerminalCount(_)
TerminalCount(sent) ==
    IF sent = <<>> THEN 0
    ELSE (IF Head(sent) \in Terminal THEN 1 ELSE 0) + TerminalCount(Tail(sent))
SimulationOver == simulation.pc = "over"

(* C37: every run of the simulation task ends by returning, without an    *)
(* exception leaving the task, and with exactly one terminal status        *)
(* (completed, failed or error) broadcast.                                 *)
C37_SimulationEndsCleanly ==
    SimulationOver =>
        /\ ~simulation.exception
        /\ TerminalCount(simulation.statuses) = 1

====
